---- MODULE Spec2Model ----
(***************************************************************************)
(* Model of the statistical inference pipeline of server.js                *)
(* (calculateDailyProbabilities and the helpers it calls).                 *)
(*                                                                         *)
(* Numbers.  JavaScript numbers are IEEE doubles.  They are modelled as    *)
(* records [nan, v]: nan is TRUE for NaN (0/0, undefined + number, ...),   *)
(* otherwise v is a fixed-point integer.  The unit of v is fixed per       *)
(* quantity and written next to each definition:                           *)
(*   centi  = 1/100   raw observations and everything toFixed(2) produces  *)
(*   e4     = 1/10000 slopes, predictions, probabilities, risk scores      *)
(* A division rounds to the nearest unit (RoundDiv).                       *)
(*                                                                         *)
(* Strings.  A string is a sequence of one-character strings, so that      *)
(* length, substring and parseInt are computed character by character.     *)
(***************************************************************************)
EXTENDS Integers, Sequences, FiniteSets, TLC

VARIABLES
    params,        \* data.properties.parameter: parameter name -> table of <<date key, value>> entries
    targetDate,    \* "MMDD" as a sequence of characters
    lat, lon,      \* request coordinates, centi-degrees, or NoCoord for the null default
    elevation,     \* elevation argument, metres
    currentYear,   \* new Date().getFullYear() at the time of the call
    paramName,     \* argument of getDailyValuesWithYear
    dataWithYear,  \* argument of calculateTrend / calculateStatistics: sequence of [year, value]
    onCircle,      \* rounding outcome of "distance <= radius" for a point on the circle itself
    inputValues,   \* argument arr / values of calculatePercentile, filterOutliers, calculateStatistics: numbers in centi
    inputPercentile, \* argument percentile of calculatePercentile
    inputRemoveOutliers, \* second argument of calculateStatistics
    inputTempMin,  \* tempMin given to interpolateHourlyTemperature, centi
    inputTempMax,  \* tempMax given to interpolateHourlyTemperature, centi
    inputHour,     \* hour of the day
    inputMonth,    \* month, 0 for null
    inputRainProb, \* daily heavy-rain probability, centi
    queryHour,     \* the hour of the query string, when given
    hourNum,       \* let hourNum of the /weather handler
    attempt,       \* loop counter of getNasaPowerDailyData
    fetches,       \* outcomes of the fetch attempts made so far
    request,       \* the HTTP request: method, pathname and the query values
    calls,         \* the collaborators invoked so far, in order
    timeline,      \* attempts and waits of getNasaPowerDailyData with their start and end, in ms
    elevationCache, \* elevationCache: the set of <<cacheKey, elevation>> entries
    locationNameCache, \* locationNameCache: the set of <<cacheKey, name>> entries
    locals,       \* the local variables of the running handler or calls
    result,        \* value returned by the function applied
    pc             \* "ready" before the call, "done" after it

\* the state of the HTTP handler and of the two caches
handlerState == <<request, calls, elevationCache, locationNameCache, locals>>

\* the arguments of the functions with the state the functions leave alone
weatherArguments == <<params, targetDate, lat, lon, elevation, currentYear, paramName, dataWithYear, onCircle, inputValues, inputPercentile, inputRemoveOutliers, inputTempMin, inputTempMax, inputHour, inputMonth, inputRainProb, handlerState>>

\* the same with the timeline of the fetch attempts, and those with the state of a
\* /weather request
functionArguments == <<weatherArguments, timeline>>

arguments == <<functionArguments, queryHour, hourNum, attempt, fetches>>

vars == <<params, targetDate, lat, lon, elevation, currentYear, paramName, dataWithYear, onCircle, result, pc, inputValues, inputPercentile, inputRemoveOutliers, inputTempMin, inputTempMax, inputHour, inputMonth, inputRainProb, queryHour, hourNum, attempt, fetches, request, calls, timeline, elevationCache, locationNameCache, locals>>

----------------------------------------------------------------------------
(* JavaScript numbers *)

NaN == [nan |-> TRUE, v |-> 0]
Num(x) == [nan |-> FALSE, v |-> x]

Abs(x) == IF x < 0 THEN -x ELSE x

\* n / d rounded to the nearest integer, halves away from zero (d > 0)
RoundDiv(n, d) ==
    IF n >= 0 THEN (2 * n + d) \div (2 * d)
              ELSE -((2 * (-n) + d) \div (2 * d))

\* the coordinate whose parseFloat is NaN (the null default of lat and lon)
NoCoord == -100000

\* a === b on numbers: NaN equals nothing
StrictEq(a, b) == ~a.nan /\ ~b.nan /\ a.v = b.v

----------------------------------------------------------------------------
(* Strings *)

Digits == <<"0", "1", "2", "3", "4", "5", "6", "7", "8", "9">>
DigitValues == [c \in {Digits[d] : d \in 1..10} |-> (CHOOSE d \in 1..10 : Digits[d] = c) - 1]
IsDigit(c) == c \in DOMAIN DigitValues
DigitVal(c) == DigitValues[c]

\* String.prototype.substring(a, b): characters a .. b-1 (0-based), b clamped to the length
Substring(s, a, b) == SubSeq(s, a + 1, IF b > Len(s) THEN Len(s) ELSE b)

RECURSIVE ParseDigits(_, _, _)
ParseDigits(s, i, acc) ==
    IF i > Len(s) \/ ~IsDigit(s[i]) THEN acc
    ELSE ParseDigits(s, i + 1, acc * 10 + DigitVal(s[i]))

\* parseInt(s): an optional sign and the leading run of decimal digits, NaN when there
\* is no digit
ParseInt(s) ==
    LET signed == Len(s) > 0 /\ s[1] \in {"-", "+"}
        body == IF signed THEN Tail(s) ELSE s
    IN  IF Len(body) = 0 \/ ~IsDigit(body[1]) THEN NaN
        ELSE IF signed /\ s[1] = "-" THEN Num(0 - ParseDigits(body, 1, 0))
        ELSE Num(ParseDigits(body, 1, 0))

----------------------------------------------------------------------------
(* Values of the raw table *)

NumberValue(x) == [type |-> "number", v |-> x]     \* x in centi
StringValue == [type |-> "string", v |-> 0]        \* any non-number (text, null)

Sentinel == -900      \* whole units; values <= -900 mean "no observation"

TargetMonth(date) == ParseInt(Substring(date, 0, 2))
TargetDay(date) == ParseInt(Substring(date, 2, 4))

\* the test of the extractor's inner if
EntryMatches(entry, targetMonth, targetDay) ==
    LET dateStr == entry[1]
        value == entry[2]
        month == ParseInt(Substring(dateStr, 4, 6))
        day == ParseInt(Substring(dateStr, 6, 8))
    IN  /\ StrictEq(month, targetMonth)
        /\ StrictEq(day, targetDay)
        /\ value.type = "number"
        /\ value.v > Sentinel * 100

\* Array.prototype.sort((a, b) => a.year - b.year): stable, ascending by year
RECURSIVE InsertByYear(_, _)
InsertByYear(sorted, d) ==
    IF sorted = <<>> THEN <<d>>
    ELSE IF sorted[Len(sorted)].year <= d.year THEN Append(sorted, d)
    ELSE Append(InsertByYear(SubSeq(sorted, 1, Len(sorted) - 1), d), sorted[Len(sorted)])

RECURSIVE SortByYear(_)
SortByYear(s) ==
    IF s = <<>> THEN <<>>
    ELSE InsertByYear(SortByYear(SubSeq(s, 1, Len(s) - 1)), s[Len(s)])

\* the for loop over Object.entries(paramData)
RECURSIVE CollectValues(_, _, _, _)
CollectValues(paramData, i, targetMonth, targetDay) ==
    IF i > Len(paramData) THEN <<>>
    ELSE LET entry == paramData[i]
             dateStr == entry[1]
             rest == CollectValues(paramData, i + 1, targetMonth, targetDay)
         IN  IF Len(dateStr) = 8 /\ EntryMatches(entry, targetMonth, targetDay)
             THEN <<[year |-> ParseInt(Substring(dateStr, 0, 4)).v, value |-> entry[2].v]>> \o rest
             ELSE rest

\* mutant of getDailyValuesWithYear: the final sort is forgotten
getDailyValuesUnsorted(prm, name, date) ==
    IF name \notin DOMAIN prm THEN <<>>
    ELSE CollectValues(prm[name], 1, TargetMonth(date), TargetDay(date))

getDailyValuesWithYear(prm, name, date) ==
    IF name \notin DOMAIN prm THEN <<>>
    ELSE SortByYear(CollectValues(prm[name], 1, TargetMonth(date), TargetDay(date)))

----------------------------------------------------------------------------
(* Exact arithmetic on large naturals.  The sums of squares of the regression *)
(* exceed the range of the model checker's integers, so they are held as      *)
(* little-endian sequences of base-10000 digits; <<>> is zero.                *)

BigBase == 10000

RECURSIVE BigOf(_)
BigOf(n) == IF n = 0 THEN <<>> ELSE <<n % BigBase>> \o BigOf(n \div BigBase)

RECURSIVE BigAddC(_, _, _)
BigAddC(a, b, carry) ==
    IF a = <<>> /\ b = <<>> THEN (IF carry = 0 THEN <<>> ELSE <<carry>>)
    ELSE LET x == IF a = <<>> THEN 0 ELSE Head(a)
             y == IF b = <<>> THEN 0 ELSE Head(b)
             t == x + y + carry
         IN  <<t % BigBase>> \o BigAddC(IF a = <<>> THEN <<>> ELSE Tail(a),
                                        IF b = <<>> THEN <<>> ELSE Tail(b),
                                        t \div BigBase)

BigAdd(a, b) == BigAddC(a, b, 0)

RECURSIVE BigMulDigit(_, _, _)
BigMulDigit(a, d, carry) ==
    IF a = <<>> THEN (IF carry = 0 THEN <<>> ELSE <<carry>>)
    ELSE LET t == Head(a) * d + carry
         IN  <<t % BigBase>> \o BigMulDigit(Tail(a), d, t \div BigBase)

RECURSIVE BigMul(_, _)
BigMul(a, b) ==
    IF a = <<>> \/ b = <<>> THEN <<>>
    ELSE LET r == BigMul(a, Tail(b))
         IN  IF r = <<>> THEN (IF Head(b) = 0 THEN <<>> ELSE BigMulDigit(a, Head(b), 0))
             ELSE IF Head(b) = 0 THEN <<0>> \o r
             ELSE BigAdd(BigMulDigit(a, Head(b), 0), <<0>> \o r)

RECURSIVE BigLeqFrom(_, _, _)
BigLeqFrom(a, b, i) ==
    IF i = 0 THEN TRUE
    ELSE IF a[i] # b[i] THEN a[i] < b[i]
    ELSE BigLeqFrom(a, b, i - 1)

\* a <= b
BigLeq(a, b) ==
    IF Len(a) # Len(b) THEN Len(a) < Len(b) ELSE BigLeqFrom(a, b, Len(a))

\* the largest k in lo..hi with (2k - 1) * b <= twiceA, i.e. (twiceA / 2) / b rounded
\* to the nearest integer and capped at hi (b > 0, 2 * hi < BigBase)
RECURSIVE BigRoundDivIn(_, _, _, _)
BigRoundDivIn(twiceA, b, lo, hi) ==
    IF lo = hi THEN lo
    ELSE LET mid == (lo + hi + 1) \div 2
         IN  IF BigLeq(BigMulDigit(b, 2 * mid - 1, 0), twiceA)
             THEN BigRoundDivIn(twiceA, b, mid, hi)
             ELSE BigRoundDivIn(twiceA, b, lo, mid - 1)

----------------------------------------------------------------------------
(* IEEE 754 double precision on non-negative numbers.  A number is a record   *)
(* [m, e] that stands for m * 2^e, m a large natural.  An arithmetic result   *)
(* is the exact value rounded to 53 significant bits, ties to even; exponent  *)
(* overflow and subnormals do not arise for the magnitudes of the pipeline.   *)

MantissaBits == 53

\* drop the leading zero digits (the last elements) of a digit sequence
RECURSIVE BigTrim(_)
BigTrim(a) ==
    IF a = <<>> THEN <<>>
    ELSE IF a[Len(a)] = 0 THEN BigTrim(SubSeq(a, 1, Len(a) - 1)) ELSE a

RECURSIVE BigSubB(_, _, _)
BigSubB(a, b, borrow) ==
    IF a = <<>> THEN <<>>
    ELSE LET y == IF b = <<>> THEN 0 ELSE Head(b)
             t == Head(a) - y - borrow
         IN  <<IF t < 0 THEN t + BigBase ELSE t>>
             \o BigSubB(Tail(a), IF b = <<>> THEN <<>> ELSE Tail(b), IF t < 0 THEN 1 ELSE 0)

\* a - b for a >= b
BigSub(a, b) == BigTrim(BigSubB(a, b, 0))

\* quotient and remainder by the small natural d of the number the digits i..Len(a)
\* of a form, the top digit (the last element) divided first
RECURSIVE BigDivDigitFrom(_, _, _)
BigDivDigitFrom(a, d, i) ==
    IF i > Len(a) THEN [q |-> <<>>, r |-> 0]
    ELSE LET top == BigDivDigitFrom(a, d, i + 1)
             val == top.r * BigBase + a[i]
         IN  [q |-> <<val \div d>> \o top.q, r |-> val % d]

BigDivDigit(a, d) ==
    IF a = <<>> THEN [q |-> <<>>, r |-> 0]
    ELSE LET x == BigDivDigitFrom(a, d, 1) IN [q |-> BigTrim(x.q), r |-> x.r]

\* a * 2^k
RECURSIVE BigShiftLeft(_, _)
BigShiftLeft(a, k) ==
    IF k = 0 \/ a = <<>> THEN a
    ELSE IF k >= 13 THEN BigShiftLeft(BigMulDigit(a, 2^13, 0), k - 13)
    ELSE BigMulDigit(a, 2^k, 0)

\* floor(a / 2^k), and whether a bit that is 1 was shifted out (or sticky was set)
RECURSIVE BigShiftRight(_, _, _)
BigShiftRight(a, k, sticky) ==
    IF k = 0 \/ a = <<>> THEN [q |-> a, sticky |-> sticky]
    ELSE LET x == BigDivDigit(a, IF k >= 13 THEN 2^13 ELSE 2^k)
         IN  IF x.r # 0 THEN BigShiftRight(x.q, IF k >= 13 THEN k - 13 ELSE 0, TRUE)
             ELSE BigShiftRight(x.q, IF k >= 13 THEN k - 13 ELSE 0, sticky)

RECURSIVE IntBitLength(_)
IntBitLength(n) == IF n = 0 THEN 0 ELSE 1 + IntBitLength(n \div 2)

\* number of significant bits of a (a number of two digits or more has over 13 bits)
RECURSIVE BigBitLength(_)
BigBitLength(a) ==
    IF a = <<>> THEN 0
    ELSE IF Len(a) >= 2 THEN 13 + BigBitLength(BigDivDigit(a, 2^13).q)
    ELSE IntBitLength(a[1])

DoubleZero == [m |-> <<>>, e |-> 0]

\* m * 2^e (plus a non-zero rest below the last bit of m when sticky) rounded to
\* MantissaBits significant bits, ties to even
RoundToDouble(m, e, sticky) ==
    IF m = <<>> THEN DoubleZero
    ELSE LET excess == BigBitLength(m) - MantissaBits
         IN  IF excess <= 0 THEN [m |-> m, e |-> e]
             ELSE LET kept == BigShiftRight(m, excess - 1, sticky)
                      last == BigDivDigit(kept.q, 2)
                      odd == BigDivDigit(last.q, 2).r = 1
                      up == last.r = 1 /\ (kept.sticky \/ odd)
                  IN  [m |-> IF up THEN BigAdd(last.q, <<1>>) ELSE last.q, e |-> e + excess]

\* the mantissas of two non-zero numbers x and y over their smaller exponent
DoubleAligned(x, y) ==
    LET e == IF x.e <= y.e THEN x.e ELSE y.e
    IN  [x |-> BigShiftLeft(x.m, x.e - e), y |-> BigShiftLeft(y.m, y.e - e), e |-> e]

\* x <= y, x == y
DoubleLeq(x, y) ==
    IF x.m = <<>> THEN TRUE
    ELSE IF y.m = <<>> THEN FALSE
    ELSE LET a == DoubleAligned(x, y) IN BigLeq(a.x, a.y)

DoubleEq(x, y) == DoubleLeq(x, y) /\ DoubleLeq(y, x)

\* x + y, x - y (for x >= y), x * y, n / d for naturals n and d > 0 (d < BigBase)
DoubleAdd(x, y) ==
    IF x.m = <<>> THEN y
    ELSE IF y.m = <<>> THEN x
    ELSE LET a == DoubleAligned(x, y) IN RoundToDouble(BigAdd(a.x, a.y), a.e, FALSE)

DoubleSub(x, y) ==
    IF x.m = <<>> \/ y.m = <<>> THEN x
    ELSE LET a == DoubleAligned(x, y) IN RoundToDouble(BigSub(a.x, a.y), a.e, FALSE)

DoubleMul(x, y) ==
    IF x.m = <<>> \/ y.m = <<>> THEN DoubleZero
    ELSE RoundToDouble(BigMul(x.m, y.m), x.e + y.e, FALSE)

DoubleOfNat(n) == [m |-> BigOf(n), e |-> 0]

DoubleDivNat(n, d) ==
    IF n = 0 THEN DoubleZero
    ELSE LET x == BigDivDigit(BigShiftLeft(BigOf(n), MantissaBits + 16), d)
         IN  RoundToDouble(x.q, 0 - (MantissaBits + 16), x.r # 0)

\* the double a decimal literal with two decimals denotes, from its value in centi
DoubleOfCenti(v) == DoubleDivNat(v, 100)

\* the largest k in lo..hi with k <= x, and the smallest with x <= k (x within lo..hi)
RECURSIVE DoubleFloorIn(_, _, _)
DoubleFloorIn(x, lo, hi) ==
    IF lo = hi THEN lo
    ELSE IF DoubleLeq(DoubleOfNat(hi), x) THEN hi ELSE DoubleFloorIn(x, lo, hi - 1)

RECURSIVE DoubleCeilIn(_, _, _)
DoubleCeilIn(x, lo, hi) ==
    IF lo = hi THEN lo
    ELSE IF DoubleLeq(x, DoubleOfNat(lo)) THEN lo ELSE DoubleCeilIn(x, lo + 1, hi)

----------------------------------------------------------------------------
(* Descriptive statistics (values in centi) *)

\* Array.prototype.sort((a, b) => a - b) on a copy
RECURSIVE InsertNum(_, _)
InsertNum(sorted, x) ==
    IF sorted = <<>> THEN <<x>>
    ELSE IF sorted[Len(sorted)] <= x THEN Append(sorted, x)
    ELSE Append(InsertNum(SubSeq(sorted, 1, Len(sorted) - 1), x), sorted[Len(sorted)])

RECURSIVE SortNum(_)
SortNum(s) ==
    IF s = <<>> THEN <<>>
    ELSE InsertNum(SortNum(SubSeq(s, 1, Len(s) - 1)), s[Len(s)])

RECURSIVE SumSeq(_)
SumSeq(s) == IF s = <<>> THEN 0 ELSE Head(s) + SumSeq(Tail(s))

RECURSIVE MinSeq(_)
MinSeq(s) == IF Len(s) = 1 THEN s[1]
             ELSE LET m == MinSeq(Tail(s)) IN IF s[1] < m THEN s[1] ELSE m

RECURSIVE MaxSeq(_)
MaxSeq(s) == IF Len(s) = 1 THEN s[1]
             ELSE LET m == MaxSeq(Tail(s)) IN IF s[1] > m THEN s[1] ELSE m

\* floor of the square root, by bisection on lo..hi
RECURSIVE IsqrtIn(_, _, _)
IsqrtIn(n, lo, hi) ==
    IF lo = hi THEN lo
    ELSE LET mid == (lo + hi + 1) \div 2
         IN  IF mid * mid <= n THEN IsqrtIn(n, mid, hi) ELSE IsqrtIn(n, lo, mid - 1)

\* Math.sqrt, rounded to the nearest integer of the unit
Sqrt(n) == LET r == IsqrtIn(n, 0, 46340) IN IF n - r * r > r THEN r + 1 ELSE r

\* calculatePercentile(arr, percentile), result in e4 (centi * 100):
\* index = percentile/100 * (n-1); lower = floor, upper = ceil, weight = index - lower
calculatePercentile(arr, percentile) ==
    IF Len(arr) = 0 THEN 0
    ELSE LET sorted == SortNum(arr)
             index100 == percentile * (Len(sorted) - 1)
             lower == index100 \div 100
             upper == IF index100 % 100 = 0 THEN lower ELSE lower + 1
             weight100 == index100 - 100 * lower
         IN  sorted[lower + 1] * (100 - weight100) + sorted[upper + 1] * weight100

\* the rank that stands for the maximum: index = (percentile / 100) * (n - 1)
FullRank == 100

\* calculatePercentile(arr, percentile) in double precision; arr in centi, each
\* element the double of a two-decimal literal, all >= 0
calculatePercentileDouble(arr, percentile) ==
    IF Len(arr) = 0 THEN DoubleZero
    ELSE LET sorted == SortNum(arr)
             index == DoubleMul(DoubleDivNat(percentile, FullRank), DoubleOfNat(Len(sorted) - 1))
             lower == DoubleFloorIn(index, 0, Len(sorted) - 1)
             upper == DoubleCeilIn(index, 0, Len(sorted) - 1)
             weight == DoubleSub(index, DoubleOfNat(lower))
         IN  DoubleAdd(DoubleMul(DoubleOfCenti(sorted[lower + 1]), DoubleSub(DoubleOfNat(1), weight)),
                       DoubleMul(DoubleOfCenti(sorted[upper + 1]), weight))

\* x.toFixed(2) read back with parseFloat, from e4 to centi
ToFixed2(x) == RoundDiv(x, 100)

\* sum of the squared differences to the mean (mean taken to the nearest centi)
RECURSIVE SumSquareDiffs(_, _)
SumSquareDiffs(arr, mean) ==
    IF arr = <<>> THEN 0
    ELSE (Head(arr) - mean) * (Head(arr) - mean) + SumSquareDiffs(Tail(arr), mean)

\* calculateStdDev(arr, mean): population standard deviation, centi
calculateStdDev(arr, mean) ==
    IF Len(arr) = 0 THEN 0
    ELSE Sqrt(RoundDiv(SumSquareDiffs(arr, mean), Len(arr)))

\* calculateConfidenceInterval(mean, stdDev, n): mean in e4, margin = 1.96 * stdDev / sqrt(n)
calculateConfidenceInterval(meanE4, sumSq, n) ==
    IF n = 0 THEN [lower |-> 0, upper |-> 0, margin |-> 0]
    ELSE LET marginE4 == RoundDiv(196 * Sqrt(sumSq), n)
         IN  [lower |-> meanE4 - marginE4, upper |-> meanE4 + marginE4, margin |-> marginE4]

\* mutant of filterOutliers: the filtered data is returned however little is left
filterOutliersAlways(values) ==
    IF Len(values) < 4 THEN values
    ELSE LET q1 == calculatePercentile(values, 25)
             q3 == calculatePercentile(values, 75)
             iqr == q3 - q1
             lowerBound == q1 - 2 * iqr
             upperBound == q3 + 2 * iqr
         IN  SelectSeq(values, LAMBDA v : v * 100 >= lowerBound /\ v * 100 <= upperBound)

\* filterOutliers(values): IQR filter, kept only when it drops at most 10% of the points
filterOutliers(values) ==
    IF Len(values) < 4 THEN values
    ELSE LET q1 == calculatePercentile(values, 25)
             q3 == calculatePercentile(values, 75)
             iqr == q3 - q1
             lowerBound == q1 - 2 * iqr
             upperBound == q3 + 2 * iqr
             filtered == SelectSeq(values, LAMBDA v : v * 100 >= lowerBound /\ v * 100 <= upperBound)
         IN  IF Len(filtered) * 10 < Len(values) * 9 THEN values ELSE filtered

ZeroStatistics ==
    [mean |-> 0, median |-> 0, stdDev |-> 0, min |-> 0, max |-> 0, count |-> 0,
     percentiles |-> [p10 |-> 0, p25 |-> 0, p50 |-> 0, p75 |-> 0, p90 |-> 0],
     confidenceInterval95 |-> [lower |-> 0, upper |-> 0, margin |-> 0]]

\* the data calculateStatistics analyses
DataToAnalyze(values, removeOutliers) ==
    IF removeOutliers THEN filterOutliers(values) ELSE values

\* calculateStatistics reaches "dataToAnalyze = values", an assignment to a const
\* binding, which throws a TypeError
StatisticsThrows(values, removeOutliers) ==
    Len(values) # 0 /\ Len(DataToAnalyze(values, removeOutliers)) = 0

\* calculateStatistics(values, removeOutliers); every field in centi, count a number
calculateStatistics(values, removeOutliers) ==
    IF Len(values) = 0 \/ StatisticsThrows(values, removeOutliers) THEN ZeroStatistics
    ELSE LET dataToAnalyze == DataToAnalyze(values, removeOutliers)
             n == Len(dataToAnalyze)
             meanE4 == RoundDiv(SumSeq(dataToAnalyze) * 100, n)
             mean == ToFixed2(meanE4)
             sumSq == SumSquareDiffs(dataToAnalyze, mean)
             ci95 == calculateConfidenceInterval(meanE4, sumSq, n)
         IN  [mean |-> mean,
              median |-> ToFixed2(calculatePercentile(dataToAnalyze, 50)),
              stdDev |-> calculateStdDev(dataToAnalyze, mean),
              min |-> MinSeq(dataToAnalyze),
              max |-> MaxSeq(dataToAnalyze),
              count |-> n,
              percentiles |-> [p10 |-> ToFixed2(calculatePercentile(dataToAnalyze, 10)),
                               p25 |-> ToFixed2(calculatePercentile(dataToAnalyze, 25)),
                               p50 |-> ToFixed2(calculatePercentile(dataToAnalyze, 50)),
                               p75 |-> ToFixed2(calculatePercentile(dataToAnalyze, 75)),
                               p90 |-> ToFixed2(calculatePercentile(dataToAnalyze, 90))],
              confidenceInterval95 |-> [lower |-> ToFixed2(ci95.lower),
                                        upper |-> ToFixed2(ci95.upper),
                                        margin |-> ToFixed2(ci95.margin)]]

\* data.map(d => d.value)
SeriesValuesOf(data) == [i \in DOMAIN data |-> data[i].value]

----------------------------------------------------------------------------
(* Trend estimator *)

\* Math.exp(-age / 5) in tenths, at least one tenth, for age = currentYear - year >= 0
ExpWeight5(age) ==
    LET table == <<10, 8, 7, 5, 4, 4, 3, 2, 2, 2, 1, 1>>
    IN  IF age + 1 <= Len(table) THEN table[age + 1] ELSE 1

\* the weights of calculateTrend: dataWithYear.map(d => ({...d, weight: ...}))
TrendWeights(data, cy) == [i \in DOMAIN data |-> ExpWeight5(cy - data[i].year)]

\* sum over the series of weight * term, the reduce calls of calculateTrend
RECURSIVE WeightedSumFrom(_, _, _)
WeightedSumFrom(w, term, i) ==
    IF i > Len(w) THEN 0 ELSE w[i] * term[i] + WeightedSumFrom(w, term, i + 1)

\* sum over the series of weight * term^2, exactly
RECURSIVE BigWeightedSquaresFrom(_, _, _)
BigWeightedSquaresFrom(w, term, i) ==
    IF i > Len(w) THEN <<>>
    ELSE LET t == BigOf(Abs(term[i]))
         IN  BigAdd(BigMulDigit(BigMul(t, t), w[i], 0), BigWeightedSquaresFrom(w, term, i + 1))

MinTrendPoints == 10

\* mutant of InsufficientData: the regression already runs on 9 points
InsufficientDataBelowNine(data) == Len(data) < MinTrendPoints - 1

\* if (dataWithYear.length < 10) return { slope: 0, ... }
InsufficientData(data) == Len(data) < MinTrendPoints

\* ssTotalWeighted * sumWeights^2
SsTotalWeighted(data, w, sumWeights, sumWY) ==
    BigWeightedSquaresFrom(w, [i \in DOMAIN data |-> sumWeights * data[i].value - sumWY], 1)

\* calculateTrend(dataWithYear, currentYear)
\*   slope in e4 per year, intercept in centi, rSquared in thousandths;
\*   a field the code leaves undefined is NaN here (it behaves as NaN in arithmetic)
calculateTrend(data, cy) ==
    IF InsufficientData(data)
    THEN [slope |-> Num(0), intercept |-> NaN, rSquared |-> NaN,
          confidence |-> "low", method |-> "insufficient_data"]
    ELSE LET w == TrendWeights(data, cy)
             sumWeights == WeightedSumFrom(w, [i \in DOMAIN data |-> 1], 1)
             sumWX == WeightedSumFrom(w, [i \in DOMAIN data |-> data[i].year], 1)
             sumWY == WeightedSumFrom(w, [i \in DOMAIN data |-> data[i].value], 1)
             sumWXY == WeightedSumFrom(w, [i \in DOMAIN data |-> data[i].year * data[i].value], 1)
             sumWXX == WeightedSumFrom(w, [i \in DOMAIN data |-> data[i].year * data[i].year], 1)
             \* slope = slopeNum / slopeDen (centi per year), both sides times sumWeights
             slopeNum == sumWeights * sumWXY - sumWX * sumWY
             slopeDen == sumWeights * sumWXX - sumWX * sumWX
             slopeE4 == RoundDiv(slopeNum * 100, slopeDen)
             interceptE4 == RoundDiv(sumWY * 100 - slopeE4 * sumWX, sumWeights)
             \* residual of d = (slopeDen * (sumW*value - sumWY) - slopeNum * (sumW*year - sumWX))
             \*                 / (sumW * slopeDen)
             ssResidualBig == BigWeightedSquaresFrom(w,
                 [i \in DOMAIN data |-> slopeDen * (sumWeights * data[i].value - sumWY)
                                        - slopeNum * (sumWeights * data[i].year - sumWX)], 1)
             ssTotalBig == BigMul(BigMul(BigOf(slopeDen), BigOf(slopeDen)),
                                  SsTotalWeighted(data, w, sumWeights, sumWY))
             \* ssResidualWeighted / ssTotalWeighted = ssResidualBig / ssTotalBig
             ratioE3 == BigRoundDivIn(BigMulDigit(ssResidualBig, 2000, 0), ssTotalBig, 0, 2000)
             \* rSquared > k / 1000
             above(k) == ~BigLeq(BigMulDigit(ssTotalBig, 1000 - k, 0),
                                 BigMulDigit(ssResidualBig, 1000, 0))
             defined == slopeDen # 0 /\ ssTotalBig # <<>>
         IN  [slope |-> IF slopeDen = 0 THEN NaN ELSE Num(slopeE4),
              intercept |-> IF slopeDen = 0 THEN NaN ELSE Num(ToFixed2(interceptE4)),
              rSquared |-> IF defined THEN Num(1000 - ratioE3) ELSE NaN,
              confidence |-> IF defined /\ above(500) THEN "high"
                             ELSE IF defined /\ above(200) THEN "medium" ELSE "low",
              method |-> "weighted_regression"]

----------------------------------------------------------------------------
(* NaN-propagating arithmetic *)

NAdd(a, b) == IF a.nan \/ b.nan THEN NaN ELSE Num(a.v + b.v)

\* a * num / den
NScale(a, num, den) == IF a.nan THEN NaN ELSE Num(RoundDiv(a.v * num, den))

\* Math.max(a, b), Math.min(a, b): NaN when either argument is NaN
NMax(a, b) == IF a.nan \/ b.nan THEN NaN ELSE IF a.v >= b.v THEN a ELSE b
NMin(a, b) == IF a.nan \/ b.nan THEN NaN ELSE IF a.v <= b.v THEN a ELSE b

\* parseFloat(x.toFixed(2)) and parseFloat(x.toFixed(1)) of an e4 number
NToFixed2(a) == IF a.nan THEN NaN ELSE Num(RoundDiv(a.v, 100))
NToFixed1(a) == IF a.nan THEN NaN ELSE Num(RoundDiv(a.v, 1000))

----------------------------------------------------------------------------
(* Static tables *)

\* getSeasonalAdjustments: temp in tenths of a degree, precip and humidity in tenths
SeasonalFactors ==
    << [temp |-> 2,   precip |-> 15, humidity |-> 12, name |-> "Verano lluvioso"],
       [temp |-> 1,   precip |-> 14, humidity |-> 12, name |-> "Verano lluvioso"],
       [temp |-> -3,  precip |-> 10, humidity |-> 10, name |-> "Otono transicion"],
       [temp |-> -8,  precip |-> 5,  humidity |-> 9,  name |-> "Otono seco"],
       [temp |-> -12, precip |-> 2,  humidity |-> 8,  name |-> "Otono seco"],
       [temp |-> -15, precip |-> 1,  humidity |-> 7,  name |-> "Invierno seco"],
       [temp |-> -16, precip |-> 1,  humidity |-> 7,  name |-> "Invierno seco"],
       [temp |-> -13, precip |-> 1,  humidity |-> 7,  name |-> "Invierno seco"],
       [temp |-> -4,  precip |-> 4,  humidity |-> 8,  name |-> "Primavera"],
       [temp |-> -35, precip |-> 8,  humidity |-> 9,  name |-> "Primavera humeda"],
       [temp |-> 5,   precip |-> 12, humidity |-> 11, name |-> "Primavera humeda"],
       [temp |-> 3,   precip |-> 14, humidity |-> 12, name |-> "Verano lluvioso"] >>

getSeasonalAdjustments(month) ==
    IF ~month.nan /\ month.v \in 1..12 THEN SeasonalFactors[month.v]
    ELSE [temp |-> 0, precip |-> 10, humidity |-> 10, name |-> "Desconocido"]

\* calibrationDatabase, in table order: lat, lon, radius in centi-degrees, temperatures in centi
calibrationDatabase ==
    << [key |-> "cochabamba_oct", lat |-> -1739, lon |-> -6616, month |-> 10, tempMax |-> 2600, tempMin |-> 1200, radius |-> 50],
       [key |-> "cochabamba_nov", lat |-> -1739, lon |-> -6616, month |-> 11, tempMax |-> 2450, tempMin |-> 1100, radius |-> 50],
       [key |-> "cochabamba_dic", lat |-> -1739, lon |-> -6616, month |-> 12, tempMax |-> 2600, tempMin |-> 1300, radius |-> 50],
       [key |-> "lapaz_oct",      lat |-> -1650, lon |-> -6815, month |-> 10, tempMax |-> 1650, tempMin |-> 300,  radius |-> 30],
       [key |-> "santacruz_oct",  lat |-> -1778, lon |-> -6318, month |-> 10, tempMax |-> 2900, tempMin |-> 1900, radius |-> 40] >>

\* baseThresholds, whole units
BaseVeryHot == 35
BaseVeryCold == 5
BaseVeryWindy == 10
BaseVeryHumid == 80
BaseHeavyRain == 10

----------------------------------------------------------------------------
(* Calibration lookup *)

\* distance <= cal.radius && month === cal.month.  The squared distance is exact in
\* centi-degrees; on the circle itself the outcome of the double-precision sqrt and
\* comparison depends on rounding and is the input onEdge.
CalibrationMatches(cal, currentLat, currentLon, month, onEdge) ==
    LET dLat == currentLat - cal.lat
        dLon == currentLon - cal.lon
        d2 == dLat * dLat + dLon * dLon
        r2 == cal.radius * cal.radius
    IN  /\ currentLat # NoCoord /\ currentLon # NoCoord
        /\ (d2 < r2 \/ (d2 = r2 /\ onEdge))
        /\ StrictEq(month, Num(cal.month))

\* mutant of findCalibration: the month of the entry is not compared
findCalibrationAnyMonth(currentLat, currentLon, month, onEdge) ==
    LET hits == { i \in DOMAIN calibrationDatabase :
                    CalibrationMatches(calibrationDatabase[i], currentLat, currentLon,
                                       Num(calibrationDatabase[i].month), onEdge) }
    IN  IF hits = {} THEN 0 ELSE CHOOSE i \in hits : \A j \in hits : i <= j

\* findCalibration(lat, lon, month): index of the first entry, in table order, that
\* matches; 0 for null
findCalibration(currentLat, currentLon, month, onEdge) ==
    LET hits == { i \in DOMAIN calibrationDatabase :
                    CalibrationMatches(calibrationDatabase[i], currentLat, currentLon, month, onEdge) }
    IN  IF hits = {} THEN 0 ELSE CHOOSE i \in hits : \A j \in hits : i <= j

----------------------------------------------------------------------------
(* Prediction *)

\* Math.exp(-age / 3) in hundredths, at least one hundredth, for age >= 0.  The code's
\* exponent also carries (targetMonth - 1) / 12, the same factor on every weight, which
\* cancels in the quotient of the weighted average.
ExpWeight3(age) ==
    LET table == <<100, 72, 51, 37, 26, 19, 14, 10, 7, 5, 4, 3, 2, 1>>
    IN  IF age + 1 <= Len(table) THEN table[age + 1] ELSE 1

\* mutant of WeightedAverage: the weights decay with the 5-year constant of the regression
WeightedAverageTauFive(data, cy) ==
    LET w == [i \in DOMAIN data |-> ExpWeight5(cy - data[i].year)]
        sumW == WeightedSumFrom(w, [i \in DOMAIN data |-> 1], 1)
        sumWV == WeightedSumFrom(w, [i \in DOMAIN data |-> data[i].value], 1)
    IN  IF Len(data) = 0 THEN NaN ELSE Num(RoundDiv(sumWV * 100, sumW))

\* sum(value * weight) / sum(weight), e4; 0/0 is NaN for an empty series
WeightedAverage(data, cy) ==
    LET w == [i \in DOMAIN data |-> ExpWeight3(cy - data[i].year)]
        sumW == WeightedSumFrom(w, [i \in DOMAIN data |-> 1], 1)
        sumWV == WeightedSumFrom(w, [i \in DOMAIN data |-> data[i].value], 1)
    IN  IF Len(data) = 0 THEN NaN ELSE Num(RoundDiv(sumWV * 100, sumW))

\* trend.slope * currentYear + trend.intercept, e4
TrendValue(trend, cy) == NAdd(NScale(trend.slope, cy, 1), NScale(trend.intercept, 100, 1))

\* data.filter(d => d.year >= currentYear - 3).map(d => d.value)
RecentYears(data, cy) ==
    SeriesValuesOf(SelectSeq(data, LAMBDA d : d.year >= cy - 3))

\* recent3Years.length > 0 ? calculatePercentile(recent3Years, 60) : stats.percentiles.p50, e4
RecentP60(data, cy, stats) ==
    LET recent == RecentYears(data, cy)
    IN  IF Len(recent) > 0 THEN Num(calculatePercentile(recent, 60))
        ELSE Num(stats.percentiles.p50 * 100)

\* mutant of PredictTemperature: the seasonal offset is added on the calibrated path too
PredictTemperatureOffsetAlways(calibrated, weightedAvg, trendValue, recentP60, seasonalTemp, calExact) ==
    IF calibrated THEN Num(calExact * 100 + seasonalTemp * 1000)
    ELSE NAdd(NAdd(NAdd(NScale(weightedAvg, 40, 100), NScale(trendValue, 35, 100)),
                   NScale(recentP60, 25, 100)),
              Num(seasonalTemp * 1000))

\* the if (exactCalibration) ... else ... of the prediction, e4
PredictTemperature(calibrated, weightedAvg, trendValue, recentP60, seasonalTemp, calExact) ==
    IF calibrated THEN Num(calExact * 100)
    ELSE NAdd(NAdd(NAdd(NScale(weightedAvg, 40, 100), NScale(trendValue, 35, 100)),
                   NScale(recentP60, 25, 100)),
              Num(seasonalTemp * 1000))

\* (weightedAvg * 0.40) + (trend * 0.35) + (recentP60 * 0.25), e4
HybridBlend(weightedAvg, trendValue, recentP60) ==
    NAdd(NAdd(NScale(weightedAvg, 40, 100), NScale(trendValue, 35, 100)),
         NScale(recentP60, 25, 100))

\* predictedWindMax: the blend, with no seasonal adjustment
PredictWindMax(weightedAvg, trendValue, recentP60) ==
    HybridBlend(weightedAvg, trendValue, recentP60)

\* predictedHumidity *= seasonalAdj.humidity; Math.max(0, Math.min(100, predictedHumidity))
PredictHumidity(weightedAvg, trendValue, recentP60, seasonalAdj) ==
    NMax(Num(0), NMin(Num(1000000),
                      NScale(HybridBlend(weightedAvg, trendValue, recentP60),
                             seasonalAdj.humidity, 10)))

\* predictedRain *= seasonalAdj.precip; Math.max(0, predictedRain)
PredictRain(weightedAvg, trendValue, recentP60, seasonalAdj) ==
    NMax(Num(0), NScale(HybridBlend(weightedAvg, trendValue, recentP60),
                        seasonalAdj.precip, 10))

\* the predictions of wind, humidity and precipitation from one series each
PredictOthers(series, trend, stats, seasonalAdj, cy) ==
    [windMax |-> PredictWindMax(WeightedAverage(series, cy), TrendValue(trend, cy),
                                RecentP60(series, cy, stats)),
     humidity |-> PredictHumidity(WeightedAverage(series, cy), TrendValue(trend, cy),
                                  RecentP60(series, cy, stats), seasonalAdj),
     rain |-> PredictRain(WeightedAverage(series, cy), TrendValue(trend, cy),
                          RecentP60(series, cy, stats), seasonalAdj)]

----------------------------------------------------------------------------
(* Hourly interpolation of the temperature *)

\* hourOfMin, hourOfMax and the two speeds of interpolateHourlyTemperature(.., month);
\* month 0 stands for null
HourlyParameters(month) ==
    IF month \in 6..8 THEN [hourOfMin |-> 7, hourOfMax |-> 14, season |-> "winter"]
    ELSE IF month \in {12, 1, 2} THEN [hourOfMin |-> 6, hourOfMax |-> 16, season |-> "summer"]
    ELSE IF month = 10 THEN [hourOfMin |-> 6, hourOfMax |-> 15, season |-> "october"]
    ELSE [hourOfMin |-> 6, hourOfMax |-> 15, season |-> "default"]

\* Math.pow(Math.sin(t * Math.PI / 2), warmingSpeed) at t = k / (hourOfMax - hourOfMin),
\* k = 0 .. hourOfMax - hourOfMin, e4 (warmingSpeed 1.5, 1.8 in winter, 1.3 in summer)
WarmingCurve ==
    [default |-> <<0, 724, 2000, 3536, 5153, 6705, 8059, 9109, 9773, 10000>>,
     october |-> <<0, 724, 2000, 3536, 5153, 6705, 8059, 9109, 9773, 10000>>,
     winter  |-> <<0, 669, 2225, 4273, 6421, 8289, 9553, 10000>>,
     summer  |-> <<0, 897, 2173, 3582, 5012, 6373, 7592, 8607, 9368, 9840, 10000>>]

\* Math.pow(1 - t, coolingSpeed) at t = k / hoursInCooling, k = 0 .. hoursInCooling - 1, e4
\* (coolingSpeed 0.8, 0.7 in winter, 0.4 in summer, 1.25 in October)
CoolingCurve ==
    [default |-> <<10000, 9463, 8918, 8365, 7803, 7230, 6645, 6048, 5435, 4804, 4152, 3474,
                   2759, 1995, 1146>>,
     october |-> <<10000, 9174, 8362, 7566, 6786, 6024, 5281, 4558, 3857, 3181, 2533, 1916,
                   1337, 806, 339>>,
     winter  |-> <<10000, 9585, 9161, 8729, 8288, 7836, 7373, 6897, 6407, 5900, 5373, 4824,
                   4246, 3632, 2969, 2236, 1376>>,
     summer  |-> <<10000, 9708, 9402, 9080, 8741, 8380, 7994, 7579, 7125, 6624, 6059, 5400,
                   4592, 3480>>]

\* temp = tempMin + amplitude * curve of the warming phase, e4
WarmingPhase(tempMin, tempMax, hoursSinceMin, p) ==
    tempMin * 100 + RoundDiv((tempMax - tempMin) * WarmingCurve[p.season][hoursSinceMin + 1], 100)

\* mutant of CoolingPhase: the cooling starts from half the amplitude
CoolingPhaseDamped(tempMin, tempMax, hoursSincePeak, p) ==
    tempMin * 100
    + RoundDiv((tempMax - tempMin) * CoolingCurve[p.season][hoursSincePeak + 1], 200)

\* temp = tempMin + amplitude * thermalInertiaFactor of the cooling phase, e4
CoolingPhase(tempMin, tempMax, hoursSincePeak, p) ==
    tempMin * 100
    + RoundDiv((tempMax - tempMin) * CoolingCurve[p.season][hoursSincePeak + 1], 100)

\* interpolateHourlyTemperature(tempMin, tempMax, hour, month), in tenths of a degree
interpolateHourlyTemperature(tempMin, tempMax, hour, month) ==
    LET p == HourlyParameters(month)
        hoursSinceMin == IF hour >= p.hourOfMin THEN hour - p.hourOfMin
                         ELSE (24 - p.hourOfMin) + hour
        temp == IF hoursSinceMin <= p.hourOfMax - p.hourOfMin
                THEN WarmingPhase(tempMin, tempMax, hoursSinceMin, p)
                ELSE CoolingPhase(tempMin, tempMax,
                                  hoursSinceMin - (p.hourOfMax - p.hourOfMin), p)
    IN  RoundDiv(temp, 1000)

----------------------------------------------------------------------------
(* Hourly rain probability *)

\* mutant of getHourlyRainFactor: the afternoon peak lasts until 18:00
getHourlyRainFactorLongPeak(hour) ==
    IF ~hour.nan /\ hour.v >= 14 /\ hour.v <= 18 THEN 20
    ELSE IF ~hour.nan /\ hour.v >= 19 /\ hour.v <= 20 THEN 13
    ELSE IF ~hour.nan /\ (hour.v >= 21 \/ hour.v <= 1) THEN 4
    ELSE IF ~hour.nan /\ hour.v >= 2 /\ hour.v <= 7 THEN 2
    ELSE IF ~hour.nan /\ hour.v >= 8 /\ hour.v <= 13 THEN 7
    ELSE 10

\* getHourlyRainFactor(hour), in tenths; every comparison with NaN is false
getHourlyRainFactor(hour) ==
    IF ~hour.nan /\ hour.v >= 14 /\ hour.v <= 17 THEN 20
    ELSE IF ~hour.nan /\ hour.v >= 18 /\ hour.v <= 20 THEN 13
    ELSE IF ~hour.nan /\ (hour.v >= 21 \/ hour.v <= 1) THEN 4
    ELSE IF ~hour.nan /\ hour.v >= 2 /\ hour.v <= 7 THEN 2
    ELSE IF ~hour.nan /\ hour.v >= 8 /\ hour.v <= 13 THEN 7
    ELSE 10

\* parseFloat((Math.min(baseRainProb * rainFactor, 100)).toFixed(1)), in tenths of a
\* percent, from baseRainProb in centi and rainFactor in tenths
HourlyRainProbability(baseRainProb, rainFactor) ==
    LET product == baseRainProb * rainFactor
    IN  RoundDiv(IF product <= 100000 THEN product ELSE 100000, 100)

----------------------------------------------------------------------------
(* Probabilities and risk scores *)

CountBeyond(values, threshold, isAbove) ==
    IF threshold.nan THEN 0
    ELSE Cardinality({ i \in DOMAIN values :
                         IF isAbove THEN values[i] * 100 > threshold.v
                                    ELSE values[i] * 100 < threshold.v })

\* mutant of calculateRealProbability: a value equal to the threshold counts as beyond it
calculateRealProbabilityInclusive(values, threshold, isAbove) ==
    IF Len(values) = 0 THEN 0
    ELSE LET count == IF threshold.nan THEN 0
                      ELSE Cardinality({ i \in DOMAIN values :
                             IF isAbove THEN values[i] * 100 >= threshold.v
                                        ELSE values[i] * 100 <= threshold.v })
         IN  RoundDiv(count * 1000000, Len(values))

\* calculateRealProbability(values, threshold, isAbove): percent in e4
calculateRealProbability(values, threshold, isAbove) ==
    IF Len(values) = 0 THEN 0
    ELSE RoundDiv(CountBeyond(values, threshold, isAbove) * 1000000, Len(values))

\* getRiskLevel(score) on the unrounded e4 score; every comparison with NaN is false
getRiskLevel(score) ==
    IF ~score.nan /\ score.v >= 700000 THEN "ALTO"
    ELSE IF ~score.nan /\ score.v >= 400000 THEN "MEDIO"
    ELSE "BAJO"

\* Math.round((probability / 100) * length)
YearsExceeded(probability, length) == RoundDiv(probability * length, 1000000)

----------------------------------------------------------------------------
(* The pipeline *)

\* the seven parameters read by calculateDailyProbabilities, and the two that get a trend
ParameterNames == {"T2M_MAX", "T2M_MIN", "T2M", "WS2M_MAX", "WS2M", "RH2M", "PRECTOTCORR"}
TrendNames == {"T2M_MAX", "T2M_MIN"}

DecadeProjection == 10

\* mutant of AdaptiveThresholds: veryCold takes the larger of P10 and the projected baseline
AdaptiveThresholdsColdMax(tempMaxStats, tempMinStats, windMaxStats, rainStats, tempMaxTrend, tempMinTrend) ==
    [veryHot |-> NMax(Num(tempMaxStats.percentiles.p90 * 100),
                      NAdd(Num(BaseVeryHot * 10000), NScale(tempMaxTrend.slope, DecadeProjection, 1))),
     veryCold |-> NMax(Num(tempMinStats.percentiles.p10 * 100),
                       NAdd(Num(BaseVeryCold * 10000), NScale(tempMinTrend.slope, DecadeProjection, 1))),
     veryWindy |-> NMax(Num(windMaxStats.percentiles.p90 * 100), Num(BaseVeryWindy * 10000)),
     veryHumid |-> Num(BaseVeryHumid * 10000),
     heavyRain |-> NMax(Num(rainStats.percentiles.p75 * 100), Num(BaseHeavyRain * 10000))]

\* const thresholds = { ... }, e4
AdaptiveThresholds(tempMaxStats, tempMinStats, windMaxStats, rainStats, tempMaxTrend, tempMinTrend) ==
    [veryHot |-> NMax(Num(tempMaxStats.percentiles.p90 * 100),
                      NAdd(Num(BaseVeryHot * 10000), NScale(tempMaxTrend.slope, DecadeProjection, 1))),
     veryCold |-> NMin(Num(tempMinStats.percentiles.p10 * 100),
                       NAdd(Num(BaseVeryCold * 10000), NScale(tempMinTrend.slope, DecadeProjection, 1))),
     veryWindy |-> NMax(Num(windMaxStats.percentiles.p90 * 100), Num(BaseVeryWindy * 10000)),
     veryHumid |-> Num(BaseVeryHumid * 10000),
     heavyRain |-> NMax(Num(rainStats.percentiles.p75 * 100), Num(BaseHeavyRain * 10000))]

\* the thresholds, the probabilities, the risk scores and the returned record, from the
\* series values, trends, statistics and predicted temperatures (e4) computed before
BuildAnalysis(values, trend, stats, seasonalAdj, predictedTempMax, predictedTempMin, cy, elev) ==
    LET tempMaxTrend == trend["T2M_MAX"]
        tempMinTrend == trend["T2M_MIN"]
        tempMaxValues == values["T2M_MAX"]
        tempMinValues == values["T2M_MIN"]
        windMaxValues == values["WS2M_MAX"]
        humidityValues == values["RH2M"]
        rainValues == values["PRECTOTCORR"]
        tempMaxStats == stats["T2M_MAX"]
        tempMinStats == stats["T2M_MIN"]
        tempAvgStats == stats["T2M"]
        windMaxStats == stats["WS2M_MAX"]
        windAvgStats == stats["WS2M"]
        humidityStats == stats["RH2M"]
        rainStats == stats["PRECTOTCORR"]
        thresholds == AdaptiveThresholds(tempMaxStats, tempMinStats, windMaxStats, rainStats,
                                         tempMaxTrend, tempMinTrend)
        \* probabilities, percent in e4
        probVeryHot == calculateRealProbability(tempMaxValues, thresholds.veryHot, TRUE)
        probVeryCold == calculateRealProbability(tempMinValues, thresholds.veryCold, FALSE)
        probVeryWindy == calculateRealProbability(windMaxValues, thresholds.veryWindy, TRUE)
        probVeryHumid ==
            RoundDiv(calculateRealProbability(humidityValues, thresholds.veryHumid, TRUE) * seasonalAdj.humidity, 10)
        probHeavyRainRaw ==
            RoundDiv(calculateRealProbability(rainValues, thresholds.heavyRain, TRUE) * seasonalAdj.precip, 10)
        probHeavyRain == IF probHeavyRainRaw > 1000000 THEN 1000000 ELSE probHeavyRainRaw
        \* risk scores, e4
        lowWind == NMax(Num(0), Num(50000 - windAvgStats.mean * 100))
        frostRiskRaw ==
            NAdd(NAdd(NScale(NMax(Num(0), NAdd(Num(100000), NScale(predictedTempMin, -1, 1))), 50, 1),
                      Num(humidityStats.mean * 30)),
                 NScale(lowWind, 20, 1))
        frostRisk == NMin(Num(1000000), frostRiskRaw)
        stormRiskRaw ==
            NAdd(NAdd(Num(RoundDiv(probHeavyRain, 2)), Num(windMaxStats.mean * 200)),
                 Num(humidityStats.mean * 20))
        stormRisk == NMin(Num(1000000), stormRiskRaw)
        heatStressRiskRaw ==
            NAdd(NAdd(NScale(NMax(Num(0), NAdd(predictedTempMax, Num(-300000))), 3, 1),
                      Num(humidityStats.mean * 30)),
                 NScale(lowWind, 10, 1))
        heatStressRisk == NMin(Num(1000000), heatStressRiskRaw)
        Condition(prob, threshold, series) ==
            [probability |-> RoundDiv(prob, 100),
             threshold |-> threshold,
             yearsExceeded |-> YearsExceeded(prob, Len(series)),
             totalYears |-> Len(series)]
        Risk(score) == [score |-> NToFixed1(score), level |-> getRiskLevel(score)]
    IN  [trendPrediction |->
            [tempMax |-> NToFixed2(predictedTempMax),
             tempMin |-> NToFixed2(predictedTempMin),
             year |-> cy,
             seasonalAdjustment |-> seasonalAdj,
             trend |-> [max |-> tempMaxTrend, min |-> tempMinTrend]],
         statistics |->
            [tempAvg |-> tempAvgStats, tempMax |-> tempMaxStats, tempMin |-> tempMinStats,
             windAvg |-> windAvgStats, windMax |-> windMaxStats,
             humidity |-> humidityStats, precipitation |-> rainStats],
         conditions |->
            [veryHot |-> Condition(probVeryHot, thresholds.veryHot, tempMaxValues),
             veryCold |-> Condition(probVeryCold, thresholds.veryCold, tempMinValues),
             veryWindy |-> Condition(probVeryWindy, thresholds.veryWindy, windMaxValues),
             veryHumid |-> Condition(probVeryHumid, thresholds.veryHumid, humidityValues),
             heavyRain |-> Condition(probHeavyRain, thresholds.heavyRain, rainValues)],
         riskScores |->
            [frost |-> Risk(frostRisk), storm |-> Risk(stormRisk), heatStress |-> Risk(heatStressRisk)],
         elevationData |-> [elevation |-> elev, correction |-> 0]]

\* the prediction of tempMax and tempMin (e4) from the series, trends and statistics
\* of the two temperature parameters, then the rest of the analysis
PredictAndAnalyse(series, trend, stats, exactCalibration, seasonalAdj, cy, elev) ==
    LET calibrated == exactCalibration # 0
        predicted ==
            [name \in TrendNames |->
                PredictTemperature(calibrated, WeightedAverage(series[name], cy),
                                   TrendValue(trend[name], cy),
                                   RecentP60(series[name], cy, stats[name]), seasonalAdj.temp,
                                   IF ~calibrated THEN 0
                                   ELSE IF name = "T2M_MAX" THEN calibrationDatabase[exactCalibration].tempMax
                                   ELSE calibrationDatabase[exactCalibration].tempMin)]
    IN  BuildAnalysis([name \in ParameterNames |-> SeriesValuesOf(series[name])], trend, stats,
                      seasonalAdj, predicted["T2M_MAX"], predicted["T2M_MIN"], cy, elev)

\* the trends and statistics of the extracted series, the calibration lookup and the
\* seasonal factors, then the prediction
AnalyseSeries(series, targetMonth, elev, currentLat, currentLon, cy, onEdge) ==
    PredictAndAnalyse(series,
                      [name \in TrendNames |-> calculateTrend(series[name], cy)],
                      [name \in ParameterNames |-> calculateStatistics(SeriesValuesOf(series[name]), FALSE)],
                      findCalibration(currentLat, currentLon, targetMonth, onEdge),
                      getSeasonalAdjustments(targetMonth), cy, elev)

\* mutant of calculateDailyProbabilities: the predicted maximum is lowered by the lapse
\* rate of 6.5 degrees per 1000 m of elevation, and the correction is reported
calculateDailyProbabilitiesLapseRate(prm, date, elev, currentLat, currentLon, cy, onEdge) ==
    LET analysis == AnalyseSeries([name \in ParameterNames |-> getDailyValuesWithYear(prm, name, date)],
                                  TargetMonth(date), elev, currentLat, currentLon, cy, onEdge)
        lapse == (65 * elev) \div 100
    IN  [analysis EXCEPT !.trendPrediction.tempMax = IF @.nan THEN @ ELSE Num(@.v - lapse),
                         !.elevationData.correction = -lapse]

\* calculateDailyProbabilities(data, targetDate, elevation, lat, lon); cy is the value
\* new Date().getFullYear() returns during the call, onEdge the rounding outcome of
\* the calibration distance test
calculateDailyProbabilities(prm, date, elev, currentLat, currentLon, cy, onEdge) ==
    AnalyseSeries([name \in ParameterNames |-> getDailyValuesWithYear(prm, name, date)],
                  TargetMonth(date), elev, currentLat, currentLon, cy, onEdge)

----------------------------------------------------------------------------
(* Inputs *)

MaxEntries == 3       \* entries of one parameter table

\* "YYYYMMDD" for a year, a month and a day
DateKey(y, m, d) ==
    << Digits[(y \div 1000) + 1], Digits[((y \div 100) % 10) + 1],
       Digits[((y \div 10) % 10) + 1], Digits[(y % 10) + 1],
       Digits[(m \div 10) + 1], Digits[(m % 10) + 1],
       Digits[(d \div 10) + 1], Digits[(d % 10) + 1] >>

\* "MMDD"
MonthDay(m, d) ==
    << Digits[(m \div 10) + 1], Digits[(m % 10) + 1],
       Digits[(d \div 10) + 1], Digits[(d % 10) + 1] >>

ExtractKeys ==
    { DateKey(2019, 1, 4), DateKey(2020, 1, 4), DateKey(2021, 1, 4),
      DateKey(2020, 1, 5), DateKey(2020, 2, 4),
      DateKey(2020, 1, 4) \o <<"0">> }

ExtractValues ==
    { NumberValue(2500), NumberValue(-90000), NumberValue(-89999), StringValue }

\* tables of at most MaxEntries entries with pairwise distinct keys, in any order
ExtractTables ==
    UNION { { t \in [1..n -> ExtractKeys \X ExtractValues] :
                \A i, j \in 1..n : i # j => t[i][1] # t[j][1] } : n \in 0..MaxEntries }

InitExtract ==
    /\ \E t \in ExtractTables, present \in BOOLEAN :
          params = IF present THEN ("T2M_MAX" :> t) ELSE ("T2M" :> t)
    /\ targetDate \in { MonthDay(1, 4), MonthDay(2, 4) }
    /\ paramName = "T2M_MAX"
    /\ lat = NoCoord /\ lon = NoCoord /\ elevation = 0 /\ currentYear = 0
    /\ onCircle = FALSE
    /\ dataWithYear = <<>>
    /\ inputValues = <<>>
    /\ inputPercentile = 0
    /\ inputRemoveOutliers = FALSE
    /\ inputTempMin = 0
    /\ inputTempMax = 0
    /\ inputHour = 0
    /\ inputMonth = 0
    /\ inputRainProb = 0
    /\ queryHour = [given |-> FALSE, text |-> <<>>]
    /\ hourNum = [null |-> TRUE]
    /\ attempt = 0
    /\ fetches = <<>>
    /\ request = <<>>
    /\ calls = <<>>
    /\ timeline = <<>>
    /\ elevationCache = {}
    /\ locationNameCache = {}
    /\ locals = <<>>
    /\ result = <<>>
    /\ pc = "ready"

\* const tempMaxData = getDailyValuesWithYear('T2M_MAX')
GetDailyValuesWithYear ==
    /\ pc = "ready"
    /\ result' = getDailyValuesWithYear(params, paramName, targetDate)
    /\ pc' = "done"
    /\ UNCHANGED arguments

NextExtract == GetDailyValuesWithYear

SpecExtract == InitExtract /\ [][NextExtract]_vars

----------------------------------------------------------------------------
(* The trend estimator and the statistics calculator on one series *)

MaxYears == 11        \* observations of one series

TrendValues == { 2000, 2150 }

\* series of n consecutive years ending the year before currentYear
TrendSeries(cy) ==
    UNION { { [i \in 1..n |-> [year |-> cy - n + i - 1, value |-> f[i]]] :
                f \in [1..n -> TrendValues] } : n \in 0..MaxYears }

InitTrend ==
    /\ currentYear = MaxYears + 1
    /\ dataWithYear \in TrendSeries(MaxYears + 1)
    /\ params = <<>> /\ targetDate = <<>> /\ paramName = ""
    /\ lat = NoCoord /\ lon = NoCoord /\ elevation = 0
    /\ onCircle = FALSE
    /\ inputValues = <<>>
    /\ inputPercentile = 0
    /\ inputRemoveOutliers = FALSE
    /\ inputTempMin = 0
    /\ inputTempMax = 0
    /\ inputHour = 0
    /\ inputMonth = 0
    /\ inputRainProb = 0
    /\ queryHour = [given |-> FALSE, text |-> <<>>]
    /\ hourNum = [null |-> TRUE]
    /\ attempt = 0
    /\ fetches = <<>>
    /\ request = <<>>
    /\ calls = <<>>
    /\ timeline = <<>>
    /\ elevationCache = {}
    /\ locationNameCache = {}
    /\ locals = <<>>
    /\ result = <<>>
    /\ pc = "ready"

\* const tempMaxTrend = calculateTrend(tempMaxData, currentYear)
CalculateTrend ==
    /\ pc = "ready"
    /\ result' = [threw |-> FALSE, trend |-> calculateTrend(dataWithYear, currentYear)]
    /\ pc' = "trend"
    /\ UNCHANGED arguments

\* const tempMaxStats = calculateStatistics(tempMaxValues)
CalculateStatistics ==
    /\ pc = "ready"
    /\ result' = [threw |-> StatisticsThrows(SeriesValuesOf(dataWithYear), FALSE),
                  stats |-> calculateStatistics(SeriesValuesOf(dataWithYear), FALSE)]
    /\ pc' = "stats"
    /\ UNCHANGED arguments

NextTrend == CalculateTrend \/ CalculateStatistics

SpecTrend == InitTrend /\ [][NextTrend]_vars

----------------------------------------------------------------------------
(* The recent-percentile component on one series.  The handler requests data up *)
(* to December 31 of the current year, so a series may hold a point of the      *)
(* current year.                                                                *)

MaxAge == 5           \* oldest observation, in years before currentYear

RecentYear == MaxAge + 1

\* one optional observation for each year currentYear - MaxAge .. currentYear
RecentSeries(cy) ==
    { LET years == SelectSeq([i \in 1..(MaxAge + 1) |-> cy - MaxAge + i - 1],
                             LAMBDA y : f[y] # 0)
      IN  [i \in DOMAIN years |-> [year |-> years[i], value |-> f[years[i]]]] :
        f \in [(cy - MaxAge)..cy -> {0} \cup TrendValues] }

InitRecent ==
    /\ currentYear = RecentYear
    /\ dataWithYear \in RecentSeries(RecentYear)
    /\ params = <<>> /\ targetDate = <<>> /\ paramName = ""
    /\ lat = NoCoord /\ lon = NoCoord /\ elevation = 0
    /\ onCircle = FALSE
    /\ inputValues = <<>>
    /\ inputPercentile = 0
    /\ inputRemoveOutliers = FALSE
    /\ inputTempMin = 0
    /\ inputTempMax = 0
    /\ inputHour = 0
    /\ inputMonth = 0
    /\ inputRainProb = 0
    /\ queryHour = [given |-> FALSE, text |-> <<>>]
    /\ hourNum = [null |-> TRUE]
    /\ attempt = 0
    /\ fetches = <<>>
    /\ request = <<>>
    /\ calls = <<>>
    /\ timeline = <<>>
    /\ elevationCache = {}
    /\ locationNameCache = {}
    /\ locals = <<>>
    /\ result = <<>>
    /\ pc = "ready"

\* const recent3YearsMax = tempMaxData.filter(...).map(...); const recentP60Max = ...
RecentPercentile ==
    /\ pc = "ready"
    /\ result' = [recent3Years |-> RecentYears(dataWithYear, currentYear),
                  recentP60 |-> RecentP60(dataWithYear, currentYear,
                                          calculateStatistics(SeriesValuesOf(dataWithYear), FALSE))]
    /\ pc' = "recent"
    /\ UNCHANGED arguments

NextRecent == RecentPercentile

SpecRecent == InitRecent /\ [][NextRecent]_vars

----------------------------------------------------------------------------
(* calculatePercentile in double precision, called at two consecutive ranks *)

MaxArr == 2           \* longest array given to calculatePercentile

\* two-decimal observations, in centi
PercentileValues == {10, 2530}

PercentileArrays == UNION { [1..n -> PercentileValues] : n \in 1..MaxArr }

InitPercentile ==
    /\ inputValues \in PercentileArrays
    /\ inputPercentile \in 0..(FullRank - 1)
    /\ params = <<>> /\ targetDate = <<>> /\ paramName = ""
    /\ lat = NoCoord /\ lon = NoCoord /\ elevation = 0
    /\ currentYear = 0 /\ dataWithYear = <<>>
    /\ onCircle = FALSE
    /\ inputRemoveOutliers = FALSE
    /\ inputTempMin = 0
    /\ inputTempMax = 0
    /\ inputHour = 0
    /\ inputMonth = 0
    /\ inputRainProb = 0
    /\ queryHour = [given |-> FALSE, text |-> <<>>]
    /\ hourNum = [null |-> TRUE]
    /\ attempt = 0
    /\ fetches = <<>>
    /\ request = <<>>
    /\ calls = <<>>
    /\ timeline = <<>>
    /\ elevationCache = {}
    /\ locationNameCache = {}
    /\ locals = <<>>
    /\ result = <<>>
    /\ pc = "ready"

\* calculatePercentile(arr, percentile); calculatePercentile(arr, percentile + 1)
CalculatePercentile ==
    /\ pc = "ready"
    /\ result' = [i \in 1..2 |-> calculatePercentileDouble(inputValues, inputPercentile + i - 1)]
    /\ pc' = "percentile"
    /\ UNCHANGED arguments

NextPercentile == CalculatePercentile

SpecPercentile == InitPercentile /\ [][NextPercentile]_vars

----------------------------------------------------------------------------
(* calculateStatistics with and without the outlier filter, on arrays that hold *)
(* up to two observations far from the rest                                     *)

MaxValues == 10       \* longest array given to calculateStatistics
MaxOutliers == 2      \* observations far from the rest in one array

OutlierValues == {0, 9000}

\* ordinary observations alternate between two values; those at the places in S
\* are replaced by one far value
OutlierArrays ==
    UNION { { [i \in 1..n |-> IF i \in S THEN o ELSE IF i % 2 = 0 THEN 2000 ELSE 2100] :
                S \in { T \in SUBSET (1..n) : Cardinality(T) <= MaxOutliers },
                o \in OutlierValues } : n \in 0..MaxValues }

InitFilter ==
    /\ inputValues \in OutlierArrays
    /\ inputRemoveOutliers \in BOOLEAN
    /\ inputPercentile = 0
    /\ params = <<>> /\ targetDate = <<>> /\ paramName = ""
    /\ lat = NoCoord /\ lon = NoCoord /\ elevation = 0
    /\ currentYear = 0 /\ dataWithYear = <<>>
    /\ onCircle = FALSE
    /\ inputTempMin = 0
    /\ inputTempMax = 0
    /\ inputHour = 0
    /\ inputMonth = 0
    /\ inputRainProb = 0
    /\ queryHour = [given |-> FALSE, text |-> <<>>]
    /\ hourNum = [null |-> TRUE]
    /\ attempt = 0
    /\ fetches = <<>>
    /\ request = <<>>
    /\ calls = <<>>
    /\ timeline = <<>>
    /\ elevationCache = {}
    /\ locationNameCache = {}
    /\ locals = <<>>
    /\ result = <<>>
    /\ pc = "ready"

\* calculateStatistics(values, removeOutliers)
CalculateStatisticsFiltered ==
    /\ pc = "ready"
    /\ result' = [threw |-> StatisticsThrows(inputValues, inputRemoveOutliers),
                  dataToAnalyze |-> DataToAnalyze(inputValues, inputRemoveOutliers),
                  stats |-> calculateStatistics(inputValues, inputRemoveOutliers)]
    /\ pc' = "filtered"
    /\ UNCHANGED arguments

NextFilter == CalculateStatisticsFiltered

SpecFilter == InitFilter /\ [][NextFilter]_vars

----------------------------------------------------------------------------
(* The predictions of wind, humidity and precipitation on one series, in every *)
(* month                                                                        *)

MaxRamp == 11         \* observations of one series

RampStarts == {0, 5000, 9500}
RampSteps == {-400, 0, 50}

\* series of n consecutive years ending the year before currentYear, from a first
\* value and a yearly step
RampSeries(cy) ==
    UNION { { [i \in 1..n |-> [year |-> cy - n + i - 1, value |-> start + step * (i - 1)]] :
                start \in RampStarts, step \in RampSteps } : n \in 0..MaxRamp }

InitOthers ==
    /\ currentYear = MaxRamp + 1
    /\ dataWithYear \in RampSeries(MaxRamp + 1)
    /\ \E m \in 1..12 : targetDate = MonthDay(m, 4)
    /\ params = <<>> /\ paramName = ""
    /\ lat = NoCoord /\ lon = NoCoord /\ elevation = 0
    /\ onCircle = FALSE
    /\ inputValues = <<>>
    /\ inputPercentile = 0
    /\ inputRemoveOutliers = FALSE
    /\ inputTempMin = 0
    /\ inputTempMax = 0
    /\ inputHour = 0
    /\ inputMonth = 0
    /\ inputRainProb = 0
    /\ queryHour = [given |-> FALSE, text |-> <<>>]
    /\ hourNum = [null |-> TRUE]
    /\ attempt = 0
    /\ fetches = <<>>
    /\ request = <<>>
    /\ calls = <<>>
    /\ timeline = <<>>
    /\ elevationCache = {}
    /\ locationNameCache = {}
    /\ locals = <<>>
    /\ result = <<>>
    /\ pc = "ready"

\* let predictedWindMax = ...; let predictedHumidity = ...; let predictedRain = ...
PredictOtherVariables ==
    /\ pc = "ready"
    /\ result' = PredictOthers(dataWithYear, calculateTrend(dataWithYear, currentYear),
                               calculateStatistics(SeriesValuesOf(dataWithYear), FALSE),
                               getSeasonalAdjustments(TargetMonth(targetDate)), currentYear)
    /\ pc' = "others"
    /\ UNCHANGED arguments

NextOthers == PredictOtherVariables

SpecOthers == InitOthers /\ [][NextOthers]_vars

----------------------------------------------------------------------------
(* interpolateHourlyTemperature at every hour of the day and in every month *)

\* daily extremes, in centi
HourlyTemps == {-500, 15, 1234, 2535}

InitHourly ==
    /\ inputTempMin \in HourlyTemps
    /\ inputTempMax \in HourlyTemps
    /\ inputHour \in 0..23
    /\ inputMonth \in 0..12
    /\ params = <<>> /\ targetDate = <<>> /\ paramName = ""
    /\ lat = NoCoord /\ lon = NoCoord /\ elevation = 0
    /\ currentYear = 0 /\ dataWithYear = <<>>
    /\ onCircle = FALSE
    /\ inputValues = <<>>
    /\ inputPercentile = 0
    /\ inputRemoveOutliers = FALSE
    /\ inputRainProb = 0
    /\ queryHour = [given |-> FALSE, text |-> <<>>]
    /\ hourNum = [null |-> TRUE]
    /\ attempt = 0
    /\ fetches = <<>>
    /\ request = <<>>
    /\ calls = <<>>
    /\ timeline = <<>>
    /\ elevationCache = {}
    /\ locationNameCache = {}
    /\ locals = <<>>
    /\ result = <<>>
    /\ pc = "ready"

\* const hourlyTemp = interpolateHourlyTemperature(tempMin, tempMax, hourNum, month)
InterpolateHourlyTemperature ==
    /\ pc = "ready"
    /\ result' = interpolateHourlyTemperature(inputTempMin, inputTempMax, inputHour, inputMonth)
    /\ pc' = "hourly"
    /\ UNCHANGED arguments

NextHourly == InterpolateHourlyTemperature

SpecHourly == InitHourly /\ [][NextHourly]_vars

----------------------------------------------------------------------------
(* The hourly rain probability at every hour of the day *)

\* reported daily heavy-rain probabilities (two decimals, capped at 100), centi
RainProbabilities == {0, 1, 25, 333, 3333, 5000, 6667, 7692, 10000}

InitRain ==
    /\ inputHour \in 0..23
    /\ inputRainProb \in RainProbabilities
    /\ inputTempMin = 0 /\ inputTempMax = 0 /\ inputMonth = 0
    /\ params = <<>> /\ targetDate = <<>> /\ paramName = ""
    /\ lat = NoCoord /\ lon = NoCoord /\ elevation = 0
    /\ currentYear = 0 /\ dataWithYear = <<>>
    /\ onCircle = FALSE
    /\ inputValues = <<>>
    /\ inputPercentile = 0
    /\ inputRemoveOutliers = FALSE
    /\ queryHour = [given |-> FALSE, text |-> <<>>]
    /\ hourNum = [null |-> TRUE]
    /\ attempt = 0
    /\ fetches = <<>>
    /\ request = <<>>
    /\ calls = <<>>
    /\ timeline = <<>>
    /\ elevationCache = {}
    /\ locationNameCache = {}
    /\ locals = <<>>
    /\ result = <<>>
    /\ pc = "ready"

\* const rainFactor = getHourlyRainFactor(hourNum); precipitation: { probability: ... }
HourlyPrecipitation ==
    /\ pc = "ready"
    /\ result' = [rainFactor |-> getHourlyRainFactor(Num(inputHour)),
                  probability |-> HourlyRainProbability(inputRainProb,
                                                        getHourlyRainFactor(Num(inputHour)))]
    /\ pc' = "rain"
    /\ UNCHANGED arguments

NextRain == HourlyPrecipitation

SpecRain == InitRain /\ [][NextRain]_vars

----------------------------------------------------------------------------
(* One /weather request with valid lat, lon and date: the validation of the    *)
(* hour, the fetch of the raw data with its retries, and the response.  Each    *)
(* await of the handler is a step.                                              *)

MAX_RETRIES == 3

\* the value of a variable that holds null
Null == [null |-> TRUE]

\* hour values of the query string
HourTexts ==
    { <<"0">>, <<"7">>, <<"2", "3">>, <<"2", "4">>, <<"-", "1">>, <<"a", "b", "c">>, <<>>,
      <<"1", "2", ".", "5">>, <<"7", "x">> }

\* what one fetch attempt comes to: data, or an error thrown inside the try block
FetchOutcomes == {"ok", "network_error", "timeout_abort", "http_error", "no_parameter"}

\* if (hourNum < 0 || hourNum > 23): both comparisons are false for NaN
HourOutOfRange(n) == ~n.nan /\ (n.v < 0 \/ n.v > 23)

\* mutant of LastAttempt: the last attempt is never recognised
LastAttemptNever(a) == a = MAX_RETRIES + 1

\* if (attempt === MAX_RETRIES)
LastAttempt(a) == a = MAX_RETRIES

\* hourlyForecast of the response: { hour: hourNum, ... } when hourNum !== null
HourlyForecast(n) ==
    IF n # Null THEN [present |-> TRUE, hour |-> n] ELSE [present |-> FALSE, hour |-> NaN]

InitWeather ==
    /\ queryHour \in {[given |-> FALSE, text |-> <<>>]}
                      \cup { [given |-> TRUE, text |-> t] : t \in HourTexts }
    /\ hourNum = Null
    /\ attempt = 0
    /\ fetches = <<>>
    /\ targetDate = MonthDay(10, 4)
    /\ lat = -1739 /\ lon = -6616
    /\ params = <<>> /\ paramName = "" /\ elevation = 0
    /\ currentYear = 0 /\ dataWithYear = <<>>
    /\ onCircle = FALSE
    /\ inputValues = <<>>
    /\ inputPercentile = 0
    /\ inputRemoveOutliers = FALSE
    /\ inputTempMin = 0 /\ inputTempMax = 0 /\ inputHour = 0 /\ inputMonth = 0
    /\ inputRainProb = 0
    /\ request = <<>>
    /\ calls = <<>>
    /\ timeline = <<>>
    /\ elevationCache = {}
    /\ locationNameCache = {}
    /\ locals = <<>>
    /\ result = <<>>
    /\ pc = "request"

\* let hourNum = null; if (hour !== undefined) { hourNum = parseInt(hour); if (...) 400 }
\* and, when the hour passes, the first iteration of the loop of getNasaPowerDailyData
ValidateHour ==
    /\ pc = "request"
    /\ hourNum' = IF queryHour.given THEN ParseInt(queryHour.text) ELSE Null
    /\ IF queryHour.given /\ HourOutOfRange(hourNum')
       THEN /\ result' = [status |-> 400, hourlyForecast |-> HourlyForecast(Null)]
            /\ pc' = "responded"
            /\ UNCHANGED attempt
       ELSE /\ attempt' = 1
            /\ pc' = "fetch"
            /\ UNCHANGED result
    /\ UNCHANGED <<functionArguments, queryHour, fetches>>

\* const TIMEOUT_MS = 60000: the timer that aborts a fetch
TIMEOUT_MS == 60000

\* the time a fetch takes to settle when its timer does not abort it, and the delay with
\* which a timer may fire after its time, in ms
ResponseTimes == {300, 2500}
TimerLateness == {0, 15}

\* the time on the timeline: the end of its last entry
Clock == IF timeline = <<>> THEN 0 ELSE timeline[Len(timeline)].end

\* mutant of waitTime: the exponent counts from zero
waitTimeFromZero(a) == 2 ^ (a - 1) * 1000

\* const waitTime = Math.pow(2, attempt) * 1000
waitTime(a) == 2 ^ a * 1000

\* one pass through the try block: await fetch(...), response.ok, await response.json(),
\* Object.keys(data.properties.parameter); an error lands in the catch block
FetchAttempt ==
    /\ pc = "fetch"
    /\ \E outcome \in FetchOutcomes :
       \E took \in IF outcome = "timeout_abort" THEN {TIMEOUT_MS} ELSE ResponseTimes :
          /\ fetches' = Append(fetches, outcome)
          /\ timeline' = Append(timeline,
                [kind |-> "attempt", n |-> attempt, ms |-> 0, start |-> Clock,
                 end |-> Clock + took])
          /\ pc' = IF outcome = "ok" THEN "analyse"
                   ELSE IF LastAttempt(attempt) THEN "thrown"
                   ELSE "backoff"
    /\ UNCHANGED <<weatherArguments, queryHour, hourNum, attempt, result>>

\* await new Promise(resolve => setTimeout(resolve, waitTime)); attempt++; the loop
\* condition attempt <= MAX_RETRIES
Backoff ==
    /\ pc = "backoff"
    /\ \E late \in TimerLateness :
          timeline' = Append(timeline,
                [kind |-> "wait", n |-> attempt, ms |-> waitTime(attempt), start |-> Clock,
                 end |-> Clock + waitTime(attempt) + late])
    /\ attempt' = attempt + 1
    /\ pc' = IF attempt + 1 <= MAX_RETRIES THEN "fetch" ELSE "analyse"
    /\ UNCHANGED <<weatherArguments, queryHour, hourNum, fetches, result>>

\* the rest of the try block of the handler: analysis, hourlyForecast, res.writeHead(200)
Respond ==
    /\ pc = "analyse"
    /\ result' = [status |-> 200, hourlyForecast |-> HourlyForecast(hourNum)]
    /\ pc' = "responded"
    /\ UNCHANGED arguments

\* catch (error) { res.writeHead(500, ...) } of the handler
RespondError ==
    /\ pc = "thrown"
    /\ result' = [status |-> 500, hourlyForecast |-> HourlyForecast(Null)]
    /\ pc' = "responded"
    /\ UNCHANGED arguments

NextWeather == ValidateHour \/ FetchAttempt \/ Backoff \/ Respond \/ RespondError

SpecWeather == InitWeather /\ [][NextWeather]_vars

\* every await settles: the fetch resolves, rejects or is aborted by its timer, and the
\* back-off timer fires
SpecWeatherFair == SpecWeather /\ WF_vars(NextWeather)

----------------------------------------------------------------------------
(* The HTTP handler.  A value of the query string is undefined, a string, or  *)
(* an array when the parameter is given more than once (url.parse(u, true)).  *)
(* Coordinates are in 1/100000 degree.                                        *)

Undefined == [kind |-> "undefined", text |-> <<>>, length |-> 0]
Text(t) == [kind |-> "string", text |-> t, length |-> Len(t)]
List(n) == [kind |-> "array", text |-> <<>>, length |-> n]

\* !v
Falsy(v) == v.kind = "undefined" \/ (v.kind = "string" /\ v.length = 0)

\* the digits after the decimal point, as a number of 1/100000
RECURSIVE FractionE5(_, _, _)
FractionE5(s, i, unit) ==
    IF i > Len(s) \/ ~IsDigit(s[i]) \/ unit = 0 THEN 0
    ELSE DigitVal(s[i]) * unit + FractionE5(s, i + 1, unit \div 10)

\* parseFloat(s) of a text with an integer part: sign, digits, and the digits after a
\* point; NaN when the text does not start with a number
ParseFloat(s) ==
    LET whole == ParseInt(s)
        negative == Len(s) > 0 /\ s[1] = "-"
        point == IF \E i \in DOMAIN s : s[i] = "."
                 THEN CHOOSE i \in DOMAIN s : s[i] = "." /\ \A j \in 1..(i - 1) : s[j] # "."
                 ELSE 0
        leading == point # 0 /\ \A j \in 1..(point - 1) : IsDigit(s[j]) \/ (j = 1 /\ s[j] \in {"-", "+"})
        fraction == IF leading THEN FractionE5(s, point + 1, 10000) ELSE 0
    IN  IF whole.nan THEN NaN
        ELSE IF negative THEN Num(whole.v * 100000 - fraction)
        ELSE Num(whole.v * 100000 + fraction)

\* x.toFixed(4) of a coordinate, as a number of 1/10000 (the text of the key)
ToFixed4(x) == IF x.nan THEN NaN ELSE Num(RoundDiv(x.v, 10))

\* const cacheKey = `${lat.toFixed(4)},${lon.toFixed(4)}`
CacheKey(la, lo) == <<ToFixed4(la), ToFixed4(lo)>>

\* cache.has(key) and cache.get(key) on a Map held as a set of <<key, value>> entries
CacheHas(cache, key) == \E e \in cache : e[1] = key
CacheGet(cache, key) == (CHOOSE e \in cache : e[1] = key)[2]

\* cache.set(key, value): the entry of the key is replaced
CacheSet(cache, key, value) == {e \in cache : e[1] # key} \cup {<<key, value>>}

\* if (!lat || !lon || !date)
MissingParameters(q) == Falsy(q.lat) \/ Falsy(q.lon) \/ Falsy(q.date)

\* if (date.length !== 4)
DateLengthInvalid(date) == date.length # 4

\* date.substring(0, 2) is not a function when date is an array: a TypeError
SubstringThrows(date) == date.kind = "array"

\* if (month < 1 || month > 12 || day < 1 || day > 31): every comparison is false for NaN
DateOutOfRange(month, day) ==
    \/ ~month.nan /\ (month.v < 1 \/ month.v > 12)
    \/ ~day.nan /\ (day.v < 1 \/ day.v > 31)

\* the responses of the model: the status, and for a /weather answer the fields filled
\* in from the collaborators
Response(status) ==
    [status |-> status, analysis |-> Null, elevation |-> Null, locationName |-> Null,
     weatherClassification |-> Null]

\* the lines of the /weather handler before the first await: the status answered, 0 when
\* the request goes on to the fetch
ValidationStatus(q) ==
    IF MissingParameters(q) THEN 400
    ELSE IF DateLengthInvalid(q.date) THEN 400
    ELSE IF SubstringThrows(q.date) THEN 500
    ELSE IF DateOutOfRange(ParseInt(Substring(q.date.text, 0, 2)),
                           ParseInt(Substring(q.date.text, 2, 4))) THEN 400
    ELSE IF q.hour.kind # "undefined" /\ HourOutOfRange(ParseInt(q.hour.text)) THEN 400
    ELSE 0

\* mutant of serveStaticFile: the callback goes on after the 404
serveStaticFileNoReturn(err) == IF err THEN <<Response(404), Response(200)>> ELSE <<Response(200)>>

\* the responses written by the callback of fs.readFile
serveStaticFile(err) == IF err THEN <<Response(404)>> ELSE <<Response(200)>>

\* the paths served from public/
StaticPaths == {"/", "/index.html", "/styles.css", "/app.js", "/calor.gif", "/frio.gif", "/normal.gif"}

\* the calls getNasaPowerDailyData can come to: the outcomes of its attempts, every one
\* but the last failed, and a failed last one only when it was the last attempt
FetchRuns ==
    { r \in UNION { [1..n -> FetchOutcomes] : n \in 1..MAX_RETRIES } :
        /\ \A i \in 1..(Len(r) - 1) : r[i] # "ok"
        /\ r[Len(r)] # "ok" => LastAttempt(Len(r)) }

\* mutant of FetchThrows: the error of the last attempt is swallowed
FetchThrowsNever(run) == run[Len(run)] = "none"

\* throw new Error(`NASA API failed after ...`): the call ends with a failed attempt
FetchThrows(run) == run[Len(run)] # "ok"

\* elevations the resolver reports, m
ResolvedElevations == {0, 2558}

\* what a request to the elevation resolver comes to: fetch rejects, !response.ok,
\* response.json() rejects, a body whose status is not OK or whose results are empty,
\* or a result
ResolverResponses ==
    { [kind |-> k, elevation |-> 0] :
        k \in {"network_error", "http_error", "bad_json", "status_not_ok", "no_results"} }
    \cup { [kind |-> "ok", elevation |-> e] : e \in ResolvedElevations }

\* mutant of ElevationFound: every body that was read counts as a result
ElevationFoundInAnyBody(resp) == resp.kind \in {"ok", "status_not_ok", "no_results"}

\* if (data.status === 'OK' && data.results && data.results.length > 0), reached when
\* the fetch and the body went well
ElevationFound(resp) == resp.kind = "ok"

\* what getElevation returns for a key that is not cached, and the cache it leaves
getElevationUncached(cache, key, resp) ==
    IF ElevationFound(resp)
    THEN [elevation |-> resp.elevation, cache |-> CacheSet(cache, key, resp.elevation)]
    ELSE [elevation |-> 0, cache |-> cache]

\* an excerpt of knownLocations: the three entries of Cochabamba and the first of
\* Quillacollo; lat, lon and radius in 1/100000 degree
knownLocations ==
    << [lat |-> -1739350, lon |-> -6615700, name |-> "Cochabamba, Bolivia", radius |-> 4000],
       [lat |-> -1738500, lon |-> -6616500, name |-> "Cochabamba, Bolivia", radius |-> 4000],
       [lat |-> -1740000, lon |-> -6615000, name |-> "Cochabamba, Bolivia", radius |-> 4000],
       [lat |-> -1738940, lon |-> -6627790, name |-> "Quillacollo, Bolivia", radius |-> 3000] >>

\* distance <= location.radius, on the squares; a point further than the radius along
\* one axis is outside
WithinLocation(la, lo, location) ==
    /\ ~la.nan /\ ~lo.nan
    /\ Abs(la.v - location.lat) <= location.radius
    /\ Abs(lo.v - location.lon) <= location.radius
    /\ (la.v - location.lat) * (la.v - location.lat) + (lo.v - location.lon) * (lo.v - location.lon)
          <= location.radius * location.radius

SquaredDistanceTo(la, lo, location) ==
    (la.v - location.lat) * (la.v - location.lat) + (lo.v - location.lon) * (lo.v - location.lon)

\* bestMatch: the first of the nearest entries that hold the point, 0 for null
BestMatch(la, lo) ==
    LET holding == { i \in DOMAIN knownLocations : WithinLocation(la, lo, knownLocations[i]) }
    IN  IF holding = {} THEN 0
        ELSE CHOOSE i \in holding :
                \A j \in holding :
                    \/ SquaredDistanceTo(la, lo, knownLocations[i]) < SquaredDistanceTo(la, lo, knownLocations[j])
                    \/ SquaredDistanceTo(la, lo, knownLocations[i]) = SquaredDistanceTo(la, lo, knownLocations[j])
                       /\ i <= j

\* a location name: where it comes from, its text, and the key for the coordinates
LocalName(i) == [from |-> "local", text |-> knownLocations[i].name, key |-> <<>>]
ResolvedName(from) == [from |-> from, text |-> "Tiquipaya, Bolivia", key |-> <<>>]
CoordName(la, lo) == [from |-> "coordinates", text |-> "", key |-> CacheKey(la, lo)]

\* what one resolver request comes to: an error thrown, a response without a usable
\* name (not ok, no features or address, no name or country), or a name with its country
NameOutcomes == {"error", "empty", "named"}

\* const zooms = [18, 16, 14]
Zooms == <<18, 16, 14>>

\* the requests one call of getLocationName makes after the local dictionary: Photon,
\* then Nominatim zoom by zoom until a name or an error
LocationNameRuns ==
    { [photon |-> "named", zooms |-> <<>>] }
    \cup { [photon |-> p, zooms |-> z] :
             p \in {"error", "empty"},
             z \in { r \in UNION { [1..n -> NameOutcomes] : n \in 1..Len(Zooms) } :
                       /\ \A i \in 1..(Len(r) - 1) : r[i] = "empty"
                       /\ r[Len(r)] = "empty" => Len(r) = Len(Zooms) } }

\* what getLocationName returns for a key that is not cached; every return stores the
\* name under the key
getLocationNameUncached(la, lo, run) ==
    IF BestMatch(la, lo) # 0 THEN LocalName(BestMatch(la, lo))
    ELSE IF run.photon = "named" THEN ResolvedName("photon")
    ELSE IF run.zooms[Len(run.zooms)] = "named" THEN ResolvedName("nominatim")
    ELSE CoordName(la, lo)

\* what the classifier call comes to: the request rejects, the answer has no choice or
\* no content (a TypeError inside the try block), or a text
ClassifierOutcomes == {"error", "no_content", "muy caluroso", "templado"}

\* response.weatherClassification
Classification(outcome) ==
    IF outcome \in {"error", "no_content"} THEN "normal" ELSE outcome

\* the text of a coordinate and of a date or hour, character by character
LatValues ==
    { Undefined, Text(<<>>), Text(<<"-", "1", "7", ".", "3", "9", "3", "5">>),
      Text(<<"-", "1", "2", ".", "5">>) }
LonValues == { Undefined, Text(<<"-", "6", "6", ".", "1", "5", "7">>) }
DateValues ==
    { Undefined, Text(<<>>), Text(<<"1", "0", "4">>), Text(<<"1", "0", "0", "4", "5">>),
      Text(MonthDay(10, 4)), Text(MonthDay(0, 4)), Text(MonthDay(13, 4)),
      Text(MonthDay(10, 0)), Text(MonthDay(10, 32)), Text(<<"a", "b", "c", "d">>),
      List(2), List(4) }
HourValues == { Undefined, Text(<<"7">>), Text(<<"2", "4">>) }

NoQuery == [lat |-> Undefined, lon |-> Undefined, date |-> Undefined, hour |-> Undefined]

\* the requests: OPTIONS, the static files, /weather with its query, /chat, another path
Requests ==
    { [method |-> "OPTIONS", pathname |-> p, query |-> NoQuery] : p \in {"/", "/weather", "/chat"} }
    \cup { [method |-> m, pathname |-> p, query |-> NoQuery] :
             m \in {"GET", "POST"}, p \in StaticPaths \cup {"/chat", "/favicon.ico"} }
    \cup { [method |-> "GET", pathname |-> "/weather",
            query |-> [lat |-> la, lon |-> lo, date |-> d, hour |-> h]] :
             la \in LatValues, lo \in LonValues, d \in DateValues, h \in HourValues }

\* the caches when the request arrives: empty, or holding the centre of Cochabamba
CachedPoint == CacheKey(Num(-1739350), Num(-6615700))

InitServer ==
    /\ request \in Requests
    /\ calls = <<>>
    /\ timeline = <<>>
    /\ \/ elevationCache = {} /\ locationNameCache = {}
       \/ elevationCache = {<<CachedPoint, 2558>>} /\ locationNameCache = {<<CachedPoint, LocalName(1)>>}
    /\ locals = [analysis |-> Null, locationName |-> Null, resolver |-> "", nameRun |-> [photon |-> "", zooms |-> <<>>], classifier |-> ""]
    /\ queryHour = [given |-> FALSE, text |-> <<>>]
    /\ hourNum = Null
    /\ attempt = 0
    /\ fetches = <<>>
    /\ targetDate = <<>>
    /\ lat = 0 /\ lon = 0
    /\ params = <<>> /\ paramName = "" /\ elevation = 0
    /\ currentYear = 0 /\ dataWithYear = <<>>
    /\ onCircle = FALSE
    /\ inputValues = <<>>
    /\ inputPercentile = 0
    /\ inputRemoveOutliers = FALSE
    /\ inputTempMin = 0 /\ inputTempMax = 0 /\ inputHour = 0 /\ inputMonth = 0
    /\ inputRainProb = 0
    /\ result = <<>>
    /\ pc = "handler"

\* the cache key of the coordinates of the request
RequestKey == CacheKey(ParseFloat(request.query.lat.text), ParseFloat(request.query.lon.text))

\* what the steps of the handler leave alone
requestArguments == <<params, targetDate, lat, lon, currentYear, paramName, dataWithYear, onCircle, inputValues, inputPercentile, inputRemoveOutliers, inputTempMin, inputTempMax, inputHour, inputMonth, inputRainProb, request, timeline, queryHour, attempt>>

\* res.writeHead(status); res.end(...): one more response written
Write(responses) == result' = result \o responses

\* the handler up to its first await or callback
HandleRequest ==
    /\ pc = "handler"
    /\ IF request.method = "OPTIONS"
       THEN Write(<<Response(200)>>) /\ pc' = "finished" /\ UNCHANGED hourNum
       ELSE IF request.pathname \in StaticPaths
       THEN UNCHANGED <<result, hourNum>> /\ pc' = "readFile"
       ELSE IF request.pathname = "/weather"
       THEN IF ValidationStatus(request.query) # 0
            THEN /\ Write(<<Response(ValidationStatus(request.query))>>)
                 /\ pc' = "finished"
                 /\ UNCHANGED hourNum
            ELSE /\ hourNum' = IF request.query.hour.kind = "undefined" THEN Null
                               ELSE ParseInt(request.query.hour.text)
                 /\ pc' = "data"
                 /\ UNCHANGED result
       ELSE IF request.pathname = "/chat"
       THEN IF request.method # "POST"
            THEN Write(<<Response(405)>>) /\ pc' = "finished" /\ UNCHANGED hourNum
            ELSE UNCHANGED <<result, hourNum>> /\ pc' = "chat_body"
       ELSE Write(<<Response(404)>>) /\ pc' = "finished" /\ UNCHANGED hourNum
    /\ UNCHANGED <<requestArguments, calls, fetches, elevation, elevationCache, locationNameCache, locals>>

\* the callback of fs.readFile
ReadFileCallback ==
    /\ pc = "readFile"
    /\ \E err \in BOOLEAN : Write(serveStaticFile(err))
    /\ pc' = "finished"
    /\ UNCHANGED <<requestArguments, calls, fetches, hourNum, elevation, elevationCache, locationNameCache, locals>>

\* await getNasaPowerDailyData(...) settles: the data, and getElevation is called, or
\* the error of the last attempt, which the catch block answers
DataSettles ==
    /\ pc = "data"
    /\ \E run \in FetchRuns :
          /\ fetches' = run
          /\ IF FetchThrows(run)
             THEN /\ Write(<<Response(500)>>)
                  /\ pc' = "finished"
                  /\ UNCHANGED calls
             ELSE /\ calls' = Append(calls, "getElevation")
                  /\ pc' = "elevation"
                  /\ UNCHANGED result
    /\ UNCHANGED <<requestArguments, hourNum, elevation, elevationCache, locationNameCache, locals>>

\* await getElevation(...) settles; calculateDailyProbabilities runs, the response is
\* built, and getLocationName is called
ElevationSettles ==
    /\ pc = "elevation"
    /\ LET key == RequestKey
       IN  IF CacheHas(elevationCache, key)
           THEN /\ elevation' = CacheGet(elevationCache, key)
                /\ locals' = [locals EXCEPT !.analysis = [elevationData |-> elevation'],
                                            !.resolver = "cached"]
                /\ calls' = calls \o <<"calculateDailyProbabilities", "getLocationName">>
                /\ UNCHANGED elevationCache
           ELSE \E resp \in ResolverResponses :
                   /\ elevation' = getElevationUncached(elevationCache, key, resp).elevation
                   /\ elevationCache' = getElevationUncached(elevationCache, key, resp).cache
                   /\ locals' = [locals EXCEPT !.analysis = [elevationData |-> elevation'],
                                               !.resolver = resp.kind]
                   /\ calls' = calls \o <<"elevation resolver", "calculateDailyProbabilities",
                                          "getLocationName">>
    /\ pc' = "name"
    /\ UNCHANGED <<requestArguments, fetches, hourNum, locationNameCache, result>>

\* await getLocationName(...) settles, and the classifier is called
LocationNameSettles ==
    /\ pc = "name"
    /\ LET la == ParseFloat(request.query.lat.text)
           lo == ParseFloat(request.query.lon.text)
       IN  IF CacheHas(locationNameCache, RequestKey)
           THEN /\ locals' = [locals EXCEPT !.locationName = CacheGet(locationNameCache, RequestKey),
                                            !.nameRun = [photon |-> "cached", zooms |-> <<>>]]
                /\ UNCHANGED locationNameCache
           ELSE \E run \in IF BestMatch(la, lo) # 0 THEN {[photon |-> "local", zooms |-> <<>>]}
                            ELSE LocationNameRuns :
                   /\ locals' = [locals EXCEPT !.locationName = getLocationNameUncached(la, lo, run),
                                               !.nameRun = run]
                   /\ locationNameCache' = CacheSet(locationNameCache, RequestKey,
                                                    getLocationNameUncached(la, lo, run))
    /\ calls' = Append(calls, "classifier")
    /\ pc' = "classify"
    /\ UNCHANGED <<requestArguments, fetches, hourNum, elevation, elevationCache, result>>

\* await openai.chat.completions.create(...) settles or the try block throws; the
\* response is written
ClassifierSettles ==
    /\ pc = "classify"
    /\ \E outcome \in ClassifierOutcomes :
          /\ locals' = [locals EXCEPT !.classifier = outcome]
          /\ Write(<<[status |-> 200, analysis |-> locals.analysis,
                      elevation |-> locals.analysis.elevationData,
                      locationName |-> locals.locationName,
                      weatherClassification |-> Classification(outcome)]>>)
    /\ pc' = "finished"
    /\ UNCHANGED <<requestArguments, calls, fetches, hourNum, elevation, elevationCache, locationNameCache>>

\* the bodies of a POST /chat, and what the calls of its callback come to
ChatBodies == {"unparsable", "no_message", "message"}
ExtractionOutcomes == {"error", "unparsable", "no_location", "location"}
CoordsOutcomes == {"error", "unparsable", "zero", "coords"}
InnerWeatherOutcomes == {"error", "ok", "ok_bad_json", "not_ok_400", "not_ok_500", "not_ok_bad_json"}

\* req.on('end'): JSON.parse(body), the message, and the call that extracts the place
ChatBodyEnds ==
    /\ pc = "chat_body"
    /\ \E body \in ChatBodies :
          IF body = "unparsable" THEN Write(<<Response(500)>>) /\ pc' = "finished"
          ELSE IF body = "no_message" THEN Write(<<Response(400)>>) /\ pc' = "finished"
          ELSE UNCHANGED result /\ pc' = "chat_extract"
    /\ UNCHANGED <<requestArguments, calls, fetches, hourNum, elevation, elevationCache, locationNameCache, locals>>

\* the extraction settles: an error goes to the catch block; a text that does not parse
\* counts as no location; with a location the coordinates are asked for
ChatExtractionSettles ==
    /\ pc = "chat_extract"
    /\ \E outcome \in ExtractionOutcomes :
          IF outcome = "error" THEN Write(<<Response(500)>>) /\ pc' = "finished"
          ELSE IF outcome = "location" THEN UNCHANGED result /\ pc' = "chat_coords"
          ELSE Write(<<Response(200)>>) /\ pc' = "finished"
    /\ UNCHANGED <<requestArguments, calls, fetches, hourNum, elevation, elevationCache, locationNameCache, locals>>

\* the coordinates settle: an error goes to the catch block; without lat && lon the
\* answer is "no location"; with them /weather is fetched
ChatCoordsSettles ==
    /\ pc = "chat_coords"
    /\ \E outcome \in CoordsOutcomes :
          IF outcome = "error" THEN Write(<<Response(500)>>) /\ pc' = "finished"
          ELSE IF outcome = "coords" THEN UNCHANGED result /\ pc' = "chat_weather"
          ELSE Write(<<Response(200)>>) /\ pc' = "finished"
    /\ UNCHANGED <<requestArguments, calls, fetches, hourNum, elevation, elevationCache, locationNameCache, locals>>

\* the status answered after the inner fetch of /weather and the reading of its body
InnerWeatherStatus(outcome) ==
    IF outcome = "ok" THEN 200
    ELSE IF outcome = "not_ok_400" THEN 400
    ELSE 500

\* await fetch(weatherUrl) and await weatherResponse.json() settle
ChatWeatherSettles ==
    /\ pc = "chat_weather"
    /\ \E outcome \in InnerWeatherOutcomes : Write(<<Response(InnerWeatherStatus(outcome))>>)
    /\ pc' = "finished"
    /\ UNCHANGED <<requestArguments, calls, fetches, hourNum, elevation, elevationCache, locationNameCache, locals>>

NextServer ==
    \/ HandleRequest \/ ReadFileCallback
    \/ DataSettles \/ ElevationSettles \/ LocationNameSettles \/ ClassifierSettles
    \/ ChatBodyEnds \/ ChatExtractionSettles \/ ChatCoordsSettles \/ ChatWeatherSettles

SpecServer == InitServer /\ [][NextServer]_vars

\* every await and callback of a request settles
SpecServerFair == SpecServer /\ WF_vars(NextServer)

----------------------------------------------------------------------------
(* Calls of getElevation and getLocationName that overlap.  A call runs to    *)
(* its first await in one step; it goes on when the awaited request settles.   *)
(* The awaits of one request (fetch, then json) and the pause between two      *)
(* zooms touch no shared state and are one step.                               *)

MaxCalls == 3         \* calls made in one run

Callers == {1, 2}

\* the coordinates of the calls: two points of Cochabamba that round to one key, and a
\* point outside the local dictionary
CachePoints ==
    { [lat |-> Num(-1739351), lon |-> Num(-6615700)],
      [lat |-> Num(-1739354), lon |-> Num(-6615700)],
      [lat |-> Num(-1250000), lon |-> Num(-6615700)] }

NoName == [from |-> "", text |-> "", key |-> <<>>]

Idle ==
    [pc |-> "idle", fn |-> "", lat |-> NaN, lon |-> NaN, zoom |-> 0, contacted |-> FALSE,
     response |-> [kind |-> "", elevation |-> 0], elevation |-> 0, name |-> NoName]

\* the calls begun so far; result lists them, caller and function
CallsMade == Len(result)

InitCache ==
    /\ locals = [c \in Callers |-> Idle]
    /\ elevationCache = {}
    /\ locationNameCache = {}
    /\ calls = <<>>
    /\ timeline = <<>>
    /\ request = <<>>
    /\ queryHour = [given |-> FALSE, text |-> <<>>]
    /\ hourNum = Null
    /\ attempt = 0
    /\ fetches = <<>>
    /\ targetDate = <<>>
    /\ lat = 0 /\ lon = 0
    /\ params = <<>> /\ paramName = "" /\ elevation = 0
    /\ currentYear = 0 /\ dataWithYear = <<>>
    /\ onCircle = FALSE
    /\ inputValues = <<>>
    /\ inputPercentile = 0
    /\ inputRemoveOutliers = FALSE
    /\ inputTempMin = 0 /\ inputTempMax = 0 /\ inputHour = 0 /\ inputMonth = 0
    /\ inputRainProb = 0
    /\ result = <<>>
    /\ pc = "serving"

\* what the steps of the calls leave alone
cacheArguments == <<params, targetDate, lat, lon, elevation, currentYear, paramName, dataWithYear, onCircle, inputValues, inputPercentile, inputRemoveOutliers, inputTempMin, inputTempMax, inputHour, inputMonth, inputRainProb, request, queryHour, hourNum, attempt, fetches, timeline, pc>>

\* a resolution that gave a value: the function, the key and the value
Resolved(fn, key, value) == [fn |-> fn, key |-> key, value |-> value]

\* getElevation(lat, lon) up to its first await
CallGetElevation(c) ==
    /\ locals[c].pc \in {"idle", "returned"}
    /\ CallsMade < MaxCalls
    /\ \E p \in CachePoints :
          LET key == CacheKey(p.lat, p.lon)
              call == [Idle EXCEPT !.fn = "getElevation", !.lat = p.lat, !.lon = p.lon]
          IN  /\ result' = Append(result, [caller |-> c, fn |-> call.fn, key |-> key])
              /\ IF CacheHas(elevationCache, key)
                 THEN locals' = [locals EXCEPT ![c] =
                         [call EXCEPT !.pc = "returned", !.elevation = CacheGet(elevationCache, key)]]
                 ELSE locals' = [locals EXCEPT ![c] =
                         [call EXCEPT !.pc = "resolver", !.contacted = TRUE]]
    /\ UNCHANGED <<cacheArguments, elevationCache, locationNameCache, calls>>

\* await fetch(url) and await response.json() settle, and getElevation returns
ElevationResolverSettles(c) ==
    /\ locals[c].pc = "resolver"
    /\ \E resp \in ResolverResponses :
          LET key == CacheKey(locals[c].lat, locals[c].lon)
              after == getElevationUncached(elevationCache, key, resp)
          IN  /\ elevationCache' = after.cache
              /\ locals' = [locals EXCEPT ![c].pc = "returned", ![c].response = resp,
                                          ![c].elevation = after.elevation]
              /\ calls' = IF resp.kind = "ok"
                          THEN Append(calls, Resolved("getElevation", key, resp.elevation))
                          ELSE calls
    /\ UNCHANGED <<cacheArguments, locationNameCache, result>>

\* getLocationName(lat, lon) up to its first await: the cache, the local dictionary,
\* and the request to Photon
CallGetLocationName(c) ==
    /\ locals[c].pc \in {"idle", "returned"}
    /\ CallsMade < MaxCalls
    /\ \E p \in CachePoints :
          LET key == CacheKey(p.lat, p.lon)
              call == [Idle EXCEPT !.fn = "getLocationName", !.lat = p.lat, !.lon = p.lon]
          IN  /\ result' = Append(result, [caller |-> c, fn |-> call.fn, key |-> key])
              /\ IF CacheHas(locationNameCache, key)
                 THEN /\ locals' = [locals EXCEPT ![c] =
                            [call EXCEPT !.pc = "returned", !.name = CacheGet(locationNameCache, key)]]
                      /\ UNCHANGED <<locationNameCache, calls>>
                 ELSE IF BestMatch(p.lat, p.lon) # 0
                 THEN /\ locals' = [locals EXCEPT ![c] =
                            [call EXCEPT !.pc = "returned", !.response = [kind |-> "local", elevation |-> 0],
                                         !.name = LocalName(BestMatch(p.lat, p.lon))]]
                      /\ locationNameCache' = CacheSet(locationNameCache, key, LocalName(BestMatch(p.lat, p.lon)))
                      /\ calls' = Append(calls, Resolved("getLocationName", key, LocalName(BestMatch(p.lat, p.lon))))
                 ELSE /\ locals' = [locals EXCEPT ![c] = [call EXCEPT !.pc = "photon", !.contacted = TRUE]]
                      /\ UNCHANGED <<locationNameCache, calls>>
    /\ UNCHANGED <<cacheArguments, elevationCache>>

\* a resolver of names settles: Photon, or Nominatim at one zoom.  A name is stored and
\* returned; after an error of Nominatim or its last zoom the coordinates are stored
\* and returned; otherwise the next request is made
NameResolverSettles(c) ==
    /\ locals[c].pc \in {"photon", "nominatim"}
    /\ \E outcome \in NameOutcomes :
          LET key == CacheKey(locals[c].lat, locals[c].lon)
              from == locals[c].pc
              gaveUp == from = "nominatim" /\ (outcome = "error" \/ locals[c].zoom = Len(Zooms))
          IN  IF outcome = "named"
              THEN /\ locals' = [locals EXCEPT ![c].pc = "returned", ![c].response = [kind |-> "named", elevation |-> 0],
                                               ![c].name = ResolvedName(from)]
                   /\ locationNameCache' = CacheSet(locationNameCache, key, ResolvedName(from))
                   /\ calls' = Append(calls, Resolved("getLocationName", key, ResolvedName(from)))
              ELSE IF gaveUp
              THEN /\ locals' = [locals EXCEPT ![c].pc = "returned", ![c].response = [kind |-> outcome, elevation |-> 0],
                                               ![c].name = CoordName(locals[c].lat, locals[c].lon)]
                   /\ locationNameCache' = CacheSet(locationNameCache, key,
                                                    CoordName(locals[c].lat, locals[c].lon))
                   /\ UNCHANGED calls
              ELSE /\ locals' = [locals EXCEPT ![c].pc = "nominatim", ![c].zoom = locals[c].zoom + 1]
                   /\ UNCHANGED <<locationNameCache, calls>>
    /\ UNCHANGED <<cacheArguments, elevationCache, result>>

NextCache ==
    \E c \in Callers :
        \/ CallGetElevation(c) \/ ElevationResolverSettles(c)
        \/ CallGetLocationName(c) \/ NameResolverSettles(c)

SpecCache == InitCache /\ [][NextCache]_vars

----------------------------------------------------------------------------
(* The calibration lookup on a grid of coordinates around each calibrated city *)

MaxOffset == 6        \* tenths of a degree around each centre

GridOffsets == { 10 * k : k \in (-MaxOffset)..MaxOffset }

GridPoints ==
    { <<calibrationDatabase[i].lat + dLat, calibrationDatabase[i].lon + dLon>> :
        i \in DOMAIN calibrationDatabase, dLat \in GridOffsets, dLon \in GridOffsets }
    \cup { <<NoCoord, NoCoord>> }

\* the point lies exactly on the circle of some entry
OnSomeCircle(currentLat, currentLon) ==
    currentLat # NoCoord /\ currentLon # NoCoord /\ \E i \in DOMAIN calibrationDatabase :
        LET cal == calibrationDatabase[i]
        IN  (currentLat - cal.lat) * (currentLat - cal.lat)
              + (currentLon - cal.lon) * (currentLon - cal.lon) = cal.radius * cal.radius

InitCalibration ==
    /\ \E pt \in GridPoints : lat = pt[1] /\ lon = pt[2]
    /\ \E m \in 1..12 : targetDate = MonthDay(m, 4)
    /\ onCircle \in (IF OnSomeCircle(lat, lon) THEN BOOLEAN ELSE {FALSE})
    /\ params = <<>> /\ paramName = "" /\ dataWithYear = <<>>
    /\ elevation = 0 /\ currentYear = 0
    /\ inputValues = <<>>
    /\ inputPercentile = 0
    /\ inputRemoveOutliers = FALSE
    /\ inputTempMin = 0
    /\ inputTempMax = 0
    /\ inputHour = 0
    /\ inputMonth = 0
    /\ inputRainProb = 0
    /\ queryHour = [given |-> FALSE, text |-> <<>>]
    /\ hourNum = [null |-> TRUE]
    /\ attempt = 0
    /\ fetches = <<>>
    /\ request = <<>>
    /\ calls = <<>>
    /\ timeline = <<>>
    /\ elevationCache = {}
    /\ locationNameCache = {}
    /\ locals = <<>>
    /\ result = <<>>
    /\ pc = "ready"

\* const exactCalibration = findCalibration(lat, lon, targetMonth)
FindCalibration ==
    /\ pc = "ready"
    /\ result' = [exactCalibration |-> findCalibration(lat, lon, TargetMonth(targetDate), onCircle)]
    /\ pc' = "done"
    /\ UNCHANGED arguments

NextCalibration == FindCalibration

SpecCalibration == InitCalibration /\ [][NextCalibration]_vars

----------------------------------------------------------------------------
(* The whole pipeline on raw tables of the seven parameters *)

MaxShort == 3         \* longest series below the regression minimum
MaxPattern == 2       \* period of the day kinds over the years

\* one observed day: a value (centi) for each parameter
DayKinds ==
    { [T2M_MAX |-> 3400, T2M_MIN |-> 600, T2M |-> 2000, WS2M_MAX |-> 1500, WS2M |-> 500,
       RH2M |-> 4980, PRECTOTCORR |-> 0],
      [T2M_MAX |-> 3600, T2M_MIN |-> 400, T2M |-> 2000, WS2M_MAX |-> 800, WS2M |-> 200,
       RH2M |-> 9000, PRECTOTCORR |-> 1200],
      [T2M_MAX |-> 3800, T2M_MIN |-> 200, T2M |-> 2100, WS2M_MAX |-> -300, WS2M |-> -100,
       RH2M |-> -5000, PRECTOTCORR |-> 2000] }

SeriesLengths == (0..MaxShort) \cup {MinTrendPoints, MinTrendPoints + 1}

PipelineYear == MinTrendPoints + 2

\* the table of one parameter: n consecutive years up to the year before cy on the
\* target day, the kinds repeating with the pattern, and one entry of the next day
RawTable(name, pattern, n, cy, m, d) ==
    [i \in 1..n |-> <<DateKey(cy - n + i - 1, m, d),
                      NumberValue(pattern[((i - 1) % Len(pattern)) + 1][name])>>]
    \o << <<DateKey(cy - 1, m, d + 1), NumberValue(9900)>> >>

\* the centre of Cochabamba, a point on its circle, a point just outside it, the
\* centre of La Paz, and no coordinates
PipelineLocations ==
    { <<-1739, -6616>>, <<-1689, -6616>>, <<-1688, -6616>>, <<-1650, -6815>>,
      <<NoCoord, NoCoord>> }

InitPipeline ==
    /\ currentYear = PipelineYear
    /\ \E m \in 1..12 : targetDate = MonthDay(m, 4)
    /\ \E pattern \in [1..MaxPattern -> DayKinds], n \in SeriesLengths :
          params = [name \in ParameterNames |->
                      RawTable(name, pattern, n, currentYear, TargetMonth(targetDate).v, 4)]
    /\ \E pt \in PipelineLocations : lat = pt[1] /\ lon = pt[2]
    /\ onCircle \in (IF OnSomeCircle(lat, lon) THEN BOOLEAN ELSE {FALSE})
    /\ elevation = 0
    /\ paramName = "" /\ dataWithYear = <<>>
    /\ inputValues = <<>>
    /\ inputPercentile = 0
    /\ inputRemoveOutliers = FALSE
    /\ inputTempMin = 0
    /\ inputTempMax = 0
    /\ inputHour = 0
    /\ inputMonth = 0
    /\ inputRainProb = 0
    /\ queryHour = [given |-> FALSE, text |-> <<>>]
    /\ hourNum = [null |-> TRUE]
    /\ attempt = 0
    /\ fetches = <<>>
    /\ request = <<>>
    /\ calls = <<>>
    /\ timeline = <<>>
    /\ elevationCache = {}
    /\ locationNameCache = {}
    /\ locals = <<>>
    /\ result = <<>>
    /\ pc = "ready"

\* const analysis = calculateDailyProbabilities(data, date, elevation, lat, lon)
CalculateDailyProbabilities ==
    /\ pc = "ready"
    /\ result' = calculateDailyProbabilities(params, targetDate, elevation, lat, lon,
                                             currentYear, onCircle)
    /\ pc' = "done"
    /\ UNCHANGED arguments

NextPipeline == CalculateDailyProbabilities

SpecPipeline == InitPipeline /\ [][NextPipeline]_vars

----------------------------------------------------------------------------
(* Successive calls of the pipeline on one response of the data source *)

MaxRuns == 2          \* calls of the pipeline in one behaviour

\* elevations given to the pipeline: the default and Cochabamba
Elevations == {0, 2558}

\* lengths of the series: none, too short for the regression, long enough
RunLengths == {0, MinTrendPoints - 1, MinTrendPoints + 1}

\* the day kinds repeating with period two over the years
RunPatterns == [{1, 2} -> DayKinds]

\* the centre of Cochabamba and no coordinates
RunLocations == { <<-1739, -6616>>, <<NoCoord, NoCoord>> }

\* the last year the wall clock reaches
LastYear == PipelineYear + 1

InitRuns ==
    /\ currentYear = PipelineYear
    /\ \E m \in {1, 7} : targetDate = MonthDay(m, 4)
    /\ \E pattern \in RunPatterns, n \in RunLengths :
          params = [name \in ParameterNames |->
                      RawTable(name, pattern, n, currentYear, TargetMonth(targetDate).v, 4)]
    /\ \E pt \in RunLocations : lat = pt[1] /\ lon = pt[2]
    /\ onCircle = FALSE
    /\ elevation \in Elevations
    /\ paramName = "" /\ dataWithYear = <<>>
    /\ inputValues = <<>>
    /\ inputPercentile = 0
    /\ inputRemoveOutliers = FALSE
    /\ inputTempMin = 0
    /\ inputTempMax = 0
    /\ inputHour = 0
    /\ inputMonth = 0
    /\ inputRainProb = 0
    /\ queryHour = [given |-> FALSE, text |-> <<>>]
    /\ hourNum = [null |-> TRUE]
    /\ attempt = 0
    /\ fetches = <<>>
    /\ request = <<>>
    /\ calls = <<>>
    /\ timeline = <<>>
    /\ elevationCache = {}
    /\ locationNameCache = {}
    /\ locals = <<>>
    /\ result = <<>>
    /\ pc = "ready"

runArguments == <<params, targetDate, lat, lon, paramName, dataWithYear, onCircle, inputValues, inputPercentile, inputRemoveOutliers, inputTempMin, inputTempMax, inputHour, inputMonth, inputRainProb, queryHour, hourNum, attempt, fetches, request, calls, timeline, elevationCache, locationNameCache>>

\* calculateDailyProbabilities(data, date, elevation, lat, lon) called once more on the
\* same data, date and coordinates: the caller gives the elevation, the year is the
\* one new Date().getFullYear() returns at that moment; locals records both
CallPipeline ==
    /\ pc = "ready"
    /\ Len(result) < MaxRuns
    /\ result' = Append(result, calculateDailyProbabilities(params, targetDate, elevation, lat, lon,
                                                            currentYear, onCircle))
    /\ locals' = Append(locals, [elevation |-> elevation, year |-> currentYear])
    /\ \E e \in Elevations : elevation' = e
    /\ UNCHANGED <<runArguments, currentYear, pc>>

\* the wall clock passes midnight of 31 December
NewYear ==
    /\ pc = "ready"
    /\ currentYear < LastYear
    /\ currentYear' = currentYear + 1
    /\ UNCHANGED <<runArguments, elevation, locals, result, pc>>

NextRuns == CallPipeline \/ NewYear

SpecRuns == InitRuns /\ [][NextRuns]_vars

----------------------------------------------------------------------------
(* C1 *)

\* the entries of the requested table that the claim says contribute a point
Contributing ==
    IF paramName \notin DOMAIN params THEN {}
    ELSE { i \in DOMAIN params[paramName] :
             LET k == params[paramName][i][1]
                 x == params[paramName][i][2]
             IN  /\ Len(k) = 8
                 /\ <<k[5], k[6], k[7], k[8]>> = targetDate
                 /\ x.type = "number"
                 /\ x.v > -90000 }

KeyYear(k) == 1000 * DigitVal(k[1]) + 100 * DigitVal(k[2]) + 10 * DigitVal(k[3]) + DigitVal(k[4])

\* C1: the extracted series holds exactly one point {year, value} per 8-character key
\* whose month/day equal the target and whose value is a number above -900, nothing
\* for any other key or for a missing parameter, in ascending year order.
C1_SeriesExtractor ==
    pc = "done" =>
        /\ Len(result) = Cardinality(Contributing)
        /\ \A i \in Contributing :
              Cardinality({ j \in DOMAIN result :
                  result[j] = [year |-> KeyYear(params[paramName][i][1]),
                               value |-> params[paramName][i][2].v] }) = 1
        /\ \A j \in 1..(Len(result) - 1) : result[j].year <= result[j + 1].year

\* two points extracted from keys given in descending year order, next to skipped entries
C1_Witness ==
    /\ pc = "done"
    /\ Len(result) = 2
    /\ Len(params[paramName]) = 3
    /\ \E i, j \in Contributing : i < j /\ KeyYear(params[paramName][i][1]) > KeyYear(params[paramName][j][1])

----------------------------------------------------------------------------
(* C2 .. C8: the pipeline *)

ConditionNames == {"veryHot", "veryCold", "veryWindy", "veryHumid", "heavyRain"}
RiskNames == {"frost", "storm", "heatStress"}

\* the values (centi) of the entries of a raw table that fall on the target day
TargetDayValues(name) ==
    LET hits == SelectSeq(params[name], LAMBDA e : <<e[1][5], e[1][6], e[1][7], e[1][8]>> = targetDate)
    IN  [i \in DOMAIN hits |-> hits[i][2].v]

\* the request's point lies within the radius of entry i: strictly inside the circle,
\* or on it when the double-precision comparison comes out as "inside"
WithinRadius(i) ==
    LET cal == calibrationDatabase[i]
        d2 == (lat - cal.lat) * (lat - cal.lat) + (lon - cal.lon) * (lon - cal.lon)
    IN  /\ lat # NoCoord /\ lon # NoCoord
        /\ (d2 < cal.radius * cal.radius \/ (d2 = cal.radius * cal.radius /\ onCircle))

\* entries of the target month that contain the request's point
MatchingEntries ==
    { i \in DOMAIN calibrationDatabase :
        WithinRadius(i) /\ calibrationDatabase[i].month = TargetMonth(targetDate).v }

\* C2: every condition probability returned by the pipeline lies within 0..100, the
\* humidity and heavy-rain probabilities being capped at 100 after the seasonal factor.
C2_ProbabilityWithinPercent ==
    pc = "done" =>
        \A c \in ConditionNames :
            /\ result.conditions[c].probability >= 0
            /\ result.conditions[c].probability <= 10000

\* C3: each risk score that is a number lies in [0,100], series with negative humidity
\* or wind included: the weighted sum is clamped on both sides.
C3_RiskScoreClamped ==
    pc = "done" =>
        \A r \in RiskNames :
            ~result.riskScores[r].score.nan =>
                /\ result.riskScores[r].score.v >= 0
                /\ result.riskScores[r].score.v <= 1000

\* C4: in every risk record whose score is a number, the level agrees with the score
\* reported in the same record: ALTO iff score >= 70, MEDIO iff 40 <= score < 70,
\* BAJO iff score < 40.
C4_LevelAgreesWithReportedScore ==
    pc = "done" =>
        \A r \in RiskNames :
            LET risk == result.riskScores[r]
            IN  ~risk.score.nan =>
                    /\ risk.level = "ALTO" <=> risk.score.v >= 700
                    /\ risk.level = "MEDIO" <=> (risk.score.v >= 400 /\ risk.score.v < 700)
                    /\ risk.level = "BAJO" <=> risk.score.v < 400

\* the three conditions of C5: the raw table counted, and whether beyond means above
ExceedanceConditions ==
    { [name |-> "veryHot", table |-> "T2M_MAX", isAbove |-> TRUE],
      [name |-> "veryCold", table |-> "T2M_MIN", isAbove |-> FALSE],
      [name |-> "veryWindy", table |-> "WS2M_MAX", isAbove |-> TRUE] }

\* number of target-day values strictly beyond the threshold reported in the record
BeyondReportedThreshold(c) ==
    LET values == TargetDayValues(c.table)
        threshold == result.conditions[c.name].threshold.v
    IN  Cardinality({ i \in DOMAIN values :
                        IF c.isAbove THEN values[i] * 100 > threshold
                                     ELSE values[i] * 100 < threshold })

\* C5 as stated: for veryHot, veryWindy and veryCold the reported probability equals
\* exactly 100 * (values strictly beyond the threshold) / (values in the series), and
\* is 0 for an empty series.
C5_ExactQuotient ==
    pc = "done" =>
        \A c \in ExceedanceConditions :
            LET n == Len(TargetDayValues(c.table))
            IN  result.conditions[c.name].probability * n = 10000 * BeyondReportedThreshold(c)

\* C5: for veryHot, veryWindy and veryCold the reported probability is
\* 100 * (values strictly beyond the threshold) / (values in the series) rounded to
\* two decimals, and is 0 for an empty series.
C5_QuotientToTwoDecimals ==
    pc = "done" =>
        \A c \in ExceedanceConditions :
            LET n == Len(TargetDayValues(c.table))
                reported == result.conditions[c.name].probability
            IN  /\ n = 0 => reported = 0
                /\ 2 * Abs(reported * n - 10000 * BeyondReportedThreshold(c)) <= n

\* one of three maxima lies above the threshold: 33.33 is reported
C5_Witness ==
    /\ pc = "done"
    /\ Len(TargetDayValues("T2M_MAX")) = 3
    /\ BeyondReportedThreshold([name |-> "veryHot", table |-> "T2M_MAX", isAbove |-> TRUE]) = 1
    /\ result.conditions.veryHot.probability = 3333

\* C6: whenever the request's point lies within the radius of a calibration entry of the
\* target month, the predicted tempMax and tempMin are that entry's values exactly.
C6_CalibrationOverride ==
    pc = "done" =>
        \A i \in MatchingEntries :
            /\ result.trendPrediction.tempMax = Num(calibrationDatabase[i].tempMax)
            /\ result.trendPrediction.tempMin = Num(calibrationDatabase[i].tempMin)

\* the centre of Cochabamba in October with a series long enough for the regression
\* and maxima far above the entry's: the prediction is the entry's 26.0 / 12.0
C6_Witness ==
    /\ pc = "done"
    /\ lat = -1739 /\ lon = -6616
    /\ TargetMonth(targetDate).v = 10
    /\ Len(TargetDayValues("T2M_MAX")) >= MinTrendPoints
    /\ \A i \in DOMAIN TargetDayValues("T2M_MAX") : TargetDayValues("T2M_MAX")[i] >= 3400
    /\ result.trendPrediction.tempMax = Num(2600)
    /\ result.trendPrediction.tempMin = Num(1200)

\* squared distance (centi-degrees) from the request's point to entry i
SquaredDistance(i) ==
    (lat - calibrationDatabase[i].lat) * (lat - calibrationDatabase[i].lat)
      + (lon - calibrationDatabase[i].lon) * (lon - calibrationDatabase[i].lon)

C8_ShortSeriesPredictionDefined ==
    (/\ pc = "done"
     /\ Len(TargetDayValues("T2M_MAX")) < 10
     /\ Len(TargetDayValues("T2M_MIN")) < 10
     /\ MatchingEntries = {}) =>
        /\ ~result.trendPrediction.tempMax.nan
        /\ ~result.trendPrediction.tempMin.nan
        /\ \A r \in RiskNames : ~result.riskScores[r].score.nan

----------------------------------------------------------------------------
(* C11 *)

\* the points [year, value] of a raw table that fall on the target day, in table order
TargetDaySeries(name) ==
    LET hits == SelectSeq(params[name], LAMBDA e : <<e[1][5], e[1][6], e[1][7], e[1][8]>> = targetDate)
    IN  [i \in DOMAIN hits |-> [year |-> KeyYear(hits[i][1]), value |-> hits[i][2].v]]

\* sum of value * exp(-(currentYear - year) / 3) and sum of exp(-(currentYear - year) / 3)
RECURSIVE DecayThreeSums(_, _)
DecayThreeSums(data, i) ==
    IF i > Len(data) THEN [wv |-> 0, w |-> 0]
    ELSE LET rest == DecayThreeSums(data, i + 1)
             weight == ExpWeight3(currentYear - data[i].year)
         IN  [wv |-> weight * data[i].value + rest.wv, w |-> weight + rest.w]

\* the trend and the statistics the record reports for a temperature parameter
ReportedTrend(name) ==
    IF name = "T2M_MAX" THEN result.trendPrediction.trend.max ELSE result.trendPrediction.trend.min
ReportedStats(name) ==
    IF name = "T2M_MAX" THEN result.statistics.tempMax ELSE result.statistics.tempMin
ReportedPrediction(name) ==
    IF name = "T2M_MAX" THEN result.trendPrediction.tempMax ELSE result.trendPrediction.tempMin

\* C11: when no calibration entry matches, the predicted temperature is
\* 0.40 * weightedAvg (tau = 3) + 0.35 * (slope * currentYear + intercept) + 0.25 * recentP60
\* plus the seasonal temperature offset of the target month, reported to two decimals;
\* where a component is not a number neither is the prediction.
C11_GeneralModelBlend ==
    (pc = "done" /\ MatchingEntries = {}) =>
        \A name \in TrendNames :
            LET data == TargetDaySeries(name)
                trend == ReportedTrend(name)
                sums == DecayThreeSums(data, 1)
                p60 == RecentP60(data, currentYear, ReportedStats(name))
                offset == SeasonalFactors[TargetMonth(targetDate).v].temp
                reported == ReportedPrediction(name)
            IN  IF Len(data) = 0 \/ trend.slope.nan \/ trend.intercept.nan THEN reported.nan
                ELSE /\ ~reported.nan
                     \* both sides in units of 1e-6 degrees; the report is rounded to 0.01
                     /\ Abs(reported.v * 10000
                            - (40 * RoundDiv(sums.wv * 100, sums.w)
                               + 35 * (trend.slope.v * currentYear + trend.intercept.v * 100)
                               + 25 * p60.v + offset * 100000))
                          <= 5200

\* an uncalibrated request in October with a regression on 11 maxima that are not all
\* equal: the prediction is a number that carries the offset of -3.5
C11_Witness ==
    /\ pc = "done"
    /\ MatchingEntries = {}
    /\ TargetMonth(targetDate).v = 10
    /\ Len(TargetDaySeries("T2M_MAX")) = MinTrendPoints + 1
    /\ TargetDaySeries("T2M_MAX")[1].value # TargetDaySeries("T2M_MAX")[2].value
    /\ ~result.trendPrediction.tempMax.nan
    /\ result.trendPrediction.trend.max.method = "weighted_regression"

----------------------------------------------------------------------------
(* C12 *)

\* C12: the recent-percentile component takes the observations of 3 calendar years,
\* never 4 years' worth (a series holds one observation per year), and when the window
\* holds no point it is the median of the whole series.
C12_ThreeYearWindow ==
    pc = "recent" =>
        /\ Len(result.recent3Years) <= 3
        /\ (result.recent3Years = <<>> /\ dataWithYear # <<>>) =>
              result.recentP60 = Num(100 * ToFixed2(calculatePercentile(SeriesValuesOf(dataWithYear), 50)))

----------------------------------------------------------------------------
(* C13 *)

\* larger and smaller of two integers
Larger(a, b) == IF a >= b THEN a ELSE b
Smaller(a, b) == IF a <= b THEN a ELSE b

\* C13: veryHot = max(P90 of max-temp, 35 + tempMaxSlope * 10), veryCold = min(P10 of
\* min-temp, 5 + tempMinSlope * 10), veryWindy = max(P90 of wind-max, 10), veryHumid = 80,
\* heavyRain = max(P75 of precipitation, 10); veryHot >= 35 whenever tempMaxSlope >= 0.
C13_AdaptiveThresholds ==
    pc = "done" =>
        LET st == result.statistics
            slopeMax == result.trendPrediction.trend.max.slope.v
            slopeMin == result.trendPrediction.trend.min.slope.v
            th == result.conditions
        IN  /\ th.veryHot.threshold = Num(Larger(st.tempMax.percentiles.p90 * 100, 350000 + slopeMax * 10))
            /\ th.veryCold.threshold = Num(Smaller(st.tempMin.percentiles.p10 * 100, 50000 + slopeMin * 10))
            /\ th.veryWindy.threshold = Num(Larger(st.windMax.percentiles.p90 * 100, 100000))
            /\ th.veryHumid.threshold = Num(800000)
            /\ th.heavyRain.threshold = Num(Larger(st.precipitation.percentiles.p75 * 100, 100000))
            /\ slopeMax >= 0 => th.veryHot.threshold.v >= 350000

\* regressions on maxima and minima that are not all equal, with the P90 of the maxima
\* above the projected baseline and the P10 of the minima below it: veryHot is the P90
\* and veryCold the P10
C13_Witness ==
    /\ pc = "done"
    /\ result.trendPrediction.trend.min.method = "weighted_regression"
    /\ result.trendPrediction.trend.min.slope.v # 0
    /\ result.trendPrediction.trend.max.slope.v # 0
    /\ result.conditions.veryHot.threshold.v = result.statistics.tempMax.percentiles.p90 * 100
    /\ result.conditions.veryHot.threshold.v > 350000 + result.trendPrediction.trend.max.slope.v * 10
    /\ result.conditions.veryCold.threshold.v = result.statistics.tempMin.percentiles.p10 * 100
    /\ result.conditions.veryCold.threshold.v < 50000 + result.trendPrediction.trend.min.slope.v * 10

----------------------------------------------------------------------------
(* C14 *)

\* C14: for a non-empty array, calculatePercentile at rank 0 is the minimum, at rank
\* 100 the maximum, its value at rank p is at most its value at rank p + 1, and every
\* value lies between the minimum and the maximum; the input array keeps its order.
C14_PercentileMonotone ==
    pc = "percentile" =>
        /\ inputPercentile = 0 => DoubleEq(result[1], DoubleOfCenti(MinSeq(inputValues)))
        /\ inputPercentile = FullRank - 1 => DoubleEq(result[2], DoubleOfCenti(MaxSeq(inputValues)))
        /\ DoubleLeq(result[1], result[2])
        /\ \A i \in 1..2 : /\ DoubleLeq(DoubleOfCenti(MinSeq(inputValues)), result[i])
                            /\ DoubleLeq(result[i], DoubleOfCenti(MaxSeq(inputValues)))

----------------------------------------------------------------------------
(* C15 *)

\* the observations of values within [Q1 - 2 IQR, Q3 + 2 IQR]
WithinFences(values) ==
    LET q1 == calculatePercentile(values, 25)
        q3 == calculatePercentile(values, 75)
    IN  SelectSeq(values, LAMBDA v : /\ v * 100 >= q1 - 2 * (q3 - q1)
                                     /\ v * 100 <= q3 + 2 * (q3 - q1))

\* C15: the count of the statistics of n values is at most n and, with the outlier
\* filter requested, at least 0.9 n; the filter gives back the original data when the
\* input has fewer than 4 values or more than 10% of them lie outside the fences, and
\* otherwise the values within the fences; a non-empty input is never filtered to nothing.
C15_FilterBound ==
    pc = "filtered" =>
        /\ ~result.threw
        /\ result.stats.count = Len(result.dataToAnalyze)
        /\ result.stats.count <= Len(inputValues)
        /\ inputRemoveOutliers => 10 * result.stats.count >= 9 * Len(inputValues)
        /\ ~inputRemoveOutliers => result.dataToAnalyze = inputValues
        /\ (inputRemoveOutliers /\ Len(inputValues) < 4) => result.dataToAnalyze = inputValues
        /\ (inputRemoveOutliers /\ Len(inputValues) >= 4) =>
              result.dataToAnalyze =
                  IF 10 * (Len(inputValues) - Len(WithinFences(inputValues))) > Len(inputValues)
                  THEN inputValues ELSE WithinFences(inputValues)
        /\ inputValues # <<>> => result.dataToAnalyze # <<>>

\* the filter was requested and dropped an observation
C15_Witness ==
    /\ pc = "filtered"
    /\ inputRemoveOutliers
    /\ result.stats.count < Len(inputValues)

----------------------------------------------------------------------------
(* C16 *)

\* C16: for every series, short ones included, and every month, the predicted humidity
\* is a number within 0..100 and the predicted precipitation a number >= 0; the
\* predicted wind is the blend of its three components with no seasonal factor.
C16_HumidityAndRainClamped ==
    pc = "others" =>
        /\ ~result.humidity.nan /\ result.humidity.v >= 0 /\ result.humidity.v <= 1000000
        /\ ~result.rain.nan /\ result.rain.v >= 0
        /\ result.windMax =
              HybridBlend(WeightedAverage(dataWithYear, currentYear),
                          TrendValue(calculateTrend(dataWithYear, currentYear), currentYear),
                          RecentP60(dataWithYear, currentYear,
                                    calculateStatistics(SeriesValuesOf(dataWithYear), FALSE)))

----------------------------------------------------------------------------
(* C17 *)

\* C17: in every month's parameter set, the warming-phase formula at the hour of the
\* maximum (t = 1) and the cooling-phase formula at t = 0 give the same value, tempMax;
\* the value returned at the hour of the maximum is tempMax and the value returned at the
\* hour of the minimum is tempMin, to the one decimal the function returns.
C17_ContinuousAtPeak ==
    LET p == HourlyParameters(inputMonth)
    IN  pc = "hourly" =>
          /\ WarmingPhase(inputTempMin, inputTempMax, p.hourOfMax - p.hourOfMin, p)
                = CoolingPhase(inputTempMin, inputTempMax, 0, p)
          /\ CoolingPhase(inputTempMin, inputTempMax, 0, p) = inputTempMax * 100
          /\ inputHour = p.hourOfMax => result = RoundDiv(inputTempMax, 10)
          /\ inputHour = p.hourOfMin => result = RoundDiv(inputTempMin, 10)

\* the function was called at the hour of the maximum, with a maximum above the minimum
C17_Witness ==
    /\ pc = "hourly"
    /\ inputHour = HourlyParameters(inputMonth).hourOfMax
    /\ inputTempMax > inputTempMin
    /\ result = RoundDiv(inputTempMax, 10)

----------------------------------------------------------------------------
(* C18 *)

\* the factor of each integer hour, in tenths
StepFactor(h) ==
    IF h \in 14..17 THEN 20
    ELSE IF h \in 18..20 THEN 13
    ELSE IF h \in (21..23) \cup (0..1) THEN 4
    ELSE IF h \in 2..7 THEN 2
    ELSE IF h \in 8..13 THEN 7
    ELSE 10

----------------------------------------------------------------------------
(* C19 *)

\* the text is a decimal integer within 0..23
IntegerHourText(t) ==
    /\ Len(t) > 0
    /\ \A i \in DOMAIN t : IsDigit(t[i])
    /\ ParseInt(t).v \in 0..23

\* C19: a 200 response holds hourlyForecast exactly when the request gave an hour, and
\* then its hour is an integer within 0..23; a given hour that is not an integer within
\* 0..23 is answered with 400 before any fetch; hour 0 is accepted.
C19_HourValidated ==
    pc = "responded" =>
        /\ result.status = 200 => result.hourlyForecast.present = queryHour.given
        /\ result.hourlyForecast.present =>
              ~result.hourlyForecast.hour.nan /\ result.hourlyForecast.hour.v \in 0..23
        /\ (queryHour.given /\ ~IntegerHourText(queryHour.text)) =>
              result.status = 400 /\ fetches = <<>>
        /\ queryHour = [given |-> TRUE, text |-> <<"0">>] => result.status # 400

----------------------------------------------------------------------------
(* C20 *)

\* the attempts before the last one have all failed
EarlierAttemptsFailed == \A i \in 1..(Len(fetches) - 1) : fetches[i] # "ok"

\* C20: one call makes at most 3 fetch attempts; no attempt follows a successful one,
\* whose data is returned; a failed attempt is followed by another exactly when fewer
\* than 3 have been made; after the third failure the call throws and the response is
\* 500; and every call ends in a response.
C20_BoundedRetry ==
    /\ [](/\ Len(fetches) <= MAX_RETRIES
          /\ EarlierAttemptsFailed
          /\ pc = "analyse" => fetches[Len(fetches)] = "ok"
          /\ pc = "backoff" => Len(fetches) < MAX_RETRIES /\ fetches[Len(fetches)] # "ok"
          /\ pc = "fetch" => Len(fetches) = attempt - 1
          /\ pc = "thrown" => Len(fetches) = MAX_RETRIES /\ fetches[Len(fetches)] # "ok"
          /\ (pc = "responded" /\ fetches # <<>>) =>
                IF fetches[Len(fetches)] = "ok" THEN result.status = 200
                ELSE Len(fetches) = MAX_RETRIES /\ result.status = 500)
    /\ (pc = "fetch" ~> pc = "responded")

\* three failed attempts answered with 500
C20_Witness ==
    /\ pc = "responded"
    /\ Len(fetches) = MAX_RETRIES
    /\ fetches[MAX_RETRIES] = "no_parameter"
    /\ result.status = 500

----------------------------------------------------------------------------
(* C21 *)

\* the last fetch attempt of the request returned data
DataReturned == fetches # <<>> /\ fetches[Len(fetches)] = "ok"

\* C21: in a /weather request the elevation lookup, the pipeline, the location-name
\* lookup and the classifier are invoked only after getNasaPowerDailyData has returned
\* data, the pipeline after the elevation lookup; when all attempts fail none of them
\* is invoked and the answer is 500.
C21_FetchBeforeCore ==
    /\ calls # <<>> => DataReturned
    /\ \A i \in DOMAIN calls :
          calls[i] = "calculateDailyProbabilities" => \E j \in 1..(i - 1) : calls[j] = "getElevation"
    /\ (fetches # <<>> /\ ~DataReturned) =>
          /\ Len(fetches) = MAX_RETRIES
          /\ calls = <<>>
          /\ pc = "finished" /\ result = <<Response(500)>>

\* three failed attempts, nothing else invoked
C21_Witness ==
    /\ pc = "finished"
    /\ Len(fetches) = MAX_RETRIES /\ fetches[MAX_RETRIES] = "http_error"
    /\ calls = <<>>
    /\ result = <<Response(500)>>

----------------------------------------------------------------------------
(* C22 *)

\* C22: after data was fetched the request is answered 200 with the analysis, whatever
\* the other collaborators come to: elevation 0 when the resolver gave none, the
\* coordinates as the name when no resolver gave one, 'normal' when the classifier
\* failed; and a /weather request is answered 500 only when the fetch failed.
C22_CollaboratorFailuresAbsorbed ==
    (pc = "finished" /\ request.pathname = "/weather" /\ request.method = "GET") =>
        /\ DataReturned =>
              /\ result[1].status = 200
              /\ result[1].analysis # Null
              /\ locals.resolver \notin {"ok", "cached"} => result[1].elevation = 0
              /\ (/\ locals.nameRun.photon \in {"error", "empty"}
                  /\ locals.nameRun.zooms[Len(locals.nameRun.zooms)] # "named") =>
                    result[1].locationName = CoordName(ParseFloat(request.query.lat.text),
                                                       ParseFloat(request.query.lon.text))
              /\ locals.classifier \in {"error", "no_content"} =>
                    result[1].weatherClassification = "normal"
        /\ result[1].status = 500 => fetches # <<>> /\ ~DataReturned

----------------------------------------------------------------------------
(* C26 *)

\* the value is a 4-character MMDD text with a month 1..12 and a day 1..31
ValidDate(date) ==
    /\ date.kind = "string"
    /\ Len(date.text) = 4
    /\ \A i \in DOMAIN date.text : IsDigit(date.text[i])
    /\ ParseInt(Substring(date.text, 0, 2)).v \in 1..12
    /\ ParseInt(Substring(date.text, 2, 4)).v \in 1..31

\* C26: a /weather request without lat, lon or date, or whose date is not a valid MMDD
\* value, is answered 400 with no fetch and no other work; only requests with a valid
\* date reach the fetch.
C26_ValidationFirst ==
    (request.pathname = "/weather" /\ request.method = "GET" /\ pc # "handler") =>
        /\ (MissingParameters(request.query) \/ ~ValidDate(request.query.date)) =>
              /\ pc = "finished" /\ result = <<Response(400)>>
              /\ fetches = <<>> /\ calls = <<>>
        /\ (pc = "data" \/ fetches # <<>>) => ValidDate(request.query.date)

----------------------------------------------------------------------------
(* C27 *)

\* every entry of the elevation cache is the elevation of a successful response for its key
EntriesResolved ==
    \A e \in elevationCache :
        \E i \in DOMAIN calls :
            calls[i].fn = "getElevation" /\ calls[i].key = e[1] /\ calls[i].value = e[2]

\* a step in which caller c begins a call of fn
Begins(c, fn) ==
    /\ Len(result') = Len(result) + 1
    /\ result'[Len(result')].caller = c
    /\ result'[Len(result')].fn = fn

\* a lookup that fails returns 0 and leaves the cache as it is
FailedLookupLeavesCache ==
    \A c \in Callers :
        (locals[c].pc = "resolver" /\ locals'[c].pc = "returned" /\ locals'[c].response.kind # "ok") =>
            locals'[c].elevation = 0 /\ elevationCache' = elevationCache

\* a call whose key is cached returns the cached value and does not contact the resolver
CachedCallAnswered ==
    \A c \in Callers :
        (Begins(c, "getElevation") /\ CacheHas(elevationCache, result'[Len(result')].key)) =>
            /\ locals'[c].pc = "returned"
            /\ ~locals'[c].contacted
            /\ locals'[c].elevation = CacheGet(elevationCache, result'[Len(result')].key)
            /\ elevationCache' = elevationCache

\* no entry changes or disappears
EntriesKept == \A e \in elevationCache : e \in elevationCache'

\* no key disappears, and an entry changes only when a call that was waiting for the
\* resolver with that key, begun before the entry was written, stores its own result
EntriesKeptOrRewritten ==
    \A e \in elevationCache :
        /\ CacheHas(elevationCache', e[1])
        /\ e \notin elevationCache' =>
              \E c \in Callers :
                  /\ locals[c].pc = "resolver" /\ locals'[c].pc = "returned"
                  /\ CacheKey(locals[c].lat, locals[c].lon) = e[1]
                  /\ locals'[c].response.kind = "ok"

\* C27 as stated: every entry of the elevation cache comes from a successful response
\* for its key; a failed lookup returns 0 and leaves the cache unchanged; an entry is
\* never overwritten or removed; a call whose key is cached returns the cached value
\* without contacting the resolver.
C27_EntriesNeverOverwritten ==
    /\ []EntriesResolved
    /\ [][FailedLookupLeavesCache /\ CachedCallAnswered /\ EntriesKept]_vars

\* C27 as amended: the same, except that an entry is never removed and is overwritten
\* only by a call for the same key that was already waiting for the resolver when the
\* entry was written.
C27_ElevationCache ==
    /\ []EntriesResolved
    /\ [][FailedLookupLeavesCache /\ CachedCallAnswered /\ EntriesKeptOrRewritten]_vars

\* an entry answered from the cache to one caller, after a lookup of the other failed
C27_Witness ==
    /\ elevationCache = {<<CacheKey(Num(-1739351), Num(-6615700)), 2558>>}
    /\ locals[1].pc = "returned" /\ locals[1].fn = "getElevation"
    /\ ~locals[1].contacted /\ locals[1].elevation = 2558
    /\ locals[2].pc = "returned" /\ locals[2].fn = "getElevation"
    /\ locals[2].response.kind = "no_results" /\ locals[2].elevation = 0

----------------------------------------------------------------------------
(* C28 *)

\* every entry of the two caches is a value some successful resolution gave for its key
ValuesResolved ==
    /\ EntriesResolved
    /\ \A e \in locationNameCache :
          \E i \in DOMAIN calls :
              calls[i].fn = "getLocationName" /\ calls[i].key = e[1] /\ calls[i].value = e[2]

\* a call that went to the elevation resolver and got a result returns that result
OwnResponseReturned ==
    \A c \in Callers :
        (locals[c].pc = "returned" /\ locals[c].fn = "getElevation" /\ locals[c].response.kind = "ok") =>
            locals[c].elevation = locals[c].response.elevation

\* a call whose key is not cached resolves it itself, also while another call for the key
\* is waiting: it contacts the resolver, or for a name finds it in the local dictionary
NoDeduplication ==
    \A c \in Callers :
        /\ (Begins(c, "getElevation") /\ ~CacheHas(elevationCache, result'[Len(result')].key)) =>
              locals'[c].contacted
        /\ (Begins(c, "getLocationName") /\ ~CacheHas(locationNameCache, result'[Len(result')].key)) =>
              locals'[c].contacted \/ BestMatch(locals'[c].lat, locals'[c].lon) # 0

\* after a successful resolution the cache holds the value of the call that stored last
LastWriterWins ==
    \A c \in Callers :
        /\ (locals[c].pc = "resolver" /\ locals'[c].pc = "returned" /\ locals'[c].response.kind = "ok") =>
              /\ CacheHas(elevationCache', CacheKey(locals[c].lat, locals[c].lon))
              /\ CacheGet(elevationCache', CacheKey(locals[c].lat, locals[c].lon)) = locals'[c].response.elevation
        /\ (locals[c].pc \in {"photon", "nominatim"} /\ locals'[c].pc = "returned"
                /\ locals'[c].response.kind = "named") =>
              /\ CacheHas(locationNameCache', CacheKey(locals[c].lat, locals[c].lon))
              /\ CacheGet(locationNameCache', CacheKey(locals[c].lat, locals[c].lon)) = locals'[c].name

\* C28: two calls for one key that is not cached both resolve it, each returns the value
\* of its own response, the cache holds the value stored last, and in every interleaving
\* an entry of a cache is a whole value that came from some successful response.
C28_LastWriterWins ==
    /\ [](ValuesResolved /\ OwnResponseReturned)
    /\ [][NoDeduplication /\ LastWriterWins]_vars

----------------------------------------------------------------------------
(* C29 *)

\* C29: on every path of the handler at most one response is written, and exactly one
\* once the handler and its callbacks have completed.
C29_ExactlyOneResponse ==
    /\ Len(result) <= 1
    /\ pc = "finished" => Len(result) = 1

\* a static file that is missing, answered once with 404
C29_Witness ==
    /\ pc = "finished"
    /\ request.pathname = "/styles.css"
    /\ result = <<Response(404)>>

----------------------------------------------------------------------------
(* C25 *)

\* the waits of the timeline, in seconds
Waits == [i \in 1..Len(SelectSeq(timeline, LAMBDA t : t.kind = "wait")) |->
             SelectSeq(timeline, LAMBDA t : t.kind = "wait")[i].ms \div 1000]

----------------------------------------------------------------------------
(* C23 *)

\* every computed number of an analysis: all of it but the elevation metadata
ComputedNumbers(analysis) == [f \in DOMAIN analysis \ {"elevationData"} |-> analysis[f]]

----------------------------------------------------------------------------
(* C24 *)

\* C24: the year used by the pipeline is an explicit input and not hidden state: two
\* calls with identical arguments (raw series, target date, location, elevation)
\* return identical output whenever they are made, a change of the wall-clock year
\* between them included.
C24_DeterministicAcrossYears ==
    \A i, j \in DOMAIN result :
        locals[i].elevation = locals[j].elevation => result[i] = result[j]

----------------------------------------------------------------------------
(* C30 *)

\* the five conditions: the raw table counted, and whether beyond means above
AllConditions ==
    ExceedanceConditions \cup
    { [name |-> "veryHumid", table |-> "RH2M", isAbove |-> TRUE],
      [name |-> "heavyRain", table |-> "PRECTOTCORR", isAbove |-> TRUE] }

\* number of target-day values strictly beyond the threshold of the record; no value
\* is beyond a threshold that is not a number
SeriesValuesBeyond(c) ==
    IF result.conditions[c.name].threshold.nan THEN 0 ELSE BeyondReportedThreshold(c)

\* C30: in every condition record 0 <= yearsExceeded <= totalYears, totalYears is the
\* length of the underlying series, and yearsExceeded is the number of series values
\* strictly beyond the threshold (below it for veryCold), for veryHumid and heavyRain
\* too, whose probability is seasonally scaled before yearsExceeded is derived.
C30_ConditionRecordConsistent ==
    pc = "done" =>
        \A c \in AllConditions :
            LET record == result.conditions[c.name]
            IN  /\ 0 <= record.yearsExceeded
                /\ record.yearsExceeded <= record.totalYears
                /\ record.totalYears = Len(TargetDayValues(c.table))
                /\ record.yearsExceeded = SeriesValuesBeyond(c)

----------------------------------------------------------------------------
(* C9 *)

\* C9: with fewer than 10 points the trend estimator returns slope 0 and confidence
\* "low" without running the regression; the statistics of an empty series are all
\* zeros with count 0; neither call throws.
C9_DegradedDefaults ==
    /\ (pc = "trend" /\ Len(dataWithYear) < 10) =>
          /\ ~result.threw
          /\ result.trend.slope = Num(0)
          /\ result.trend.confidence = "low"
          /\ result.trend.method = "insufficient_data"
    /\ (pc = "stats" /\ Len(dataWithYear) = 0) =>
          /\ ~result.threw
          /\ result.stats.count = 0
          /\ \A f \in {"mean", "median", "stdDev", "min", "max"} : result.stats[f] = 0
          /\ \A q \in {"p10", "p25", "p50", "p75", "p90"} : result.stats.percentiles[q] = 0
          /\ \A c \in {"lower", "upper", "margin"} : result.stats.confidenceInterval95[c] = 0
    /\ pc = "stats" => ~result.threw

\* the trend of a 9-point series that is not constant: the n = 9 side of the boundary
C9_Witness ==
    /\ pc = "trend"
    /\ Len(dataWithYear) = 9
    /\ dataWithYear[1].value < dataWithYear[9].value
    /\ result.trend.slope = Num(0)

----------------------------------------------------------------------------
(* C10 *)

\* C10: for every series of at least 10 observations with distinct years, a constant
\* series included, rSquared is a defined number within [0,1].
C10_RSquaredInUnitInterval ==
    (pc = "trend" /\ Len(dataWithYear) >= 10) =>
        /\ ~result.trend.rSquared.nan
        /\ result.trend.rSquared.v >= 0
        /\ result.trend.rSquared.v <= 1000

====
